---------------------------- MODULE Spec2Model ----------------------------
(***************************************************************************)
(* Session lifecycle and challenge recovery of the insta-api login and     *)
(* upload scripts: login() of login.js (two variants), loginSingleAccount, *)
(* createIgFromSession, the a.js main and the standalone uploadReel.       *)
(* The private API client, the operator and the file system are the        *)
(* environment: every external call returns one of its possible outcomes.  *)
(***************************************************************************)
EXTENDS Integers, Sequences, FiniteSets, TLC

(***************************************************************************)
(* Bounds of the model.                                                    *)
(***************************************************************************)
MaxRuns == 2
MaxTextLen == 2
MaxAccounts == 2
MaxVideos == 3
MaxUploadRuns == 2

(***************************************************************************)
(* Program constants.                                                      *)
(***************************************************************************)
maxAttempts == 3
RetryDelayMs == 5000
PreLoginPauseMs == 7000
MinDelayDefaultMs == 2500

Usernames == {"demo", "alt"}

NoCookie == -1
NoUser == ""

(***************************************************************************)
(* Texts.  A message is a sequence of morphemes; String.includes is        *)
(* containment of a contiguous run of morphemes, toLowerCase maps each     *)
(* morpheme to its lower-case form.                                        *)
(***************************************************************************)
ToLowerMorpheme(m) ==
  CASE m = "Two-Factor" -> "two-factor"
    [] m = "Challenge" -> "challenge"
    [] m = "2FA" -> "2fa"
    [] m = ".MOV" -> ".mov"
    [] OTHER -> m

toLowerCase(text) == [i \in 1..Len(text) |-> ToLowerMorpheme(text[i])]

includes(text, marker) ==
  \E i \in 0..(Len(text) - Len(marker)) :
     \A j \in 1..Len(marker) : text[i + j] = marker[j]

M_checkpoint_required == <<"checkpoint", "_required">>
M_challenge_required == <<"challenge", "_required">>
M_two_factor_required == <<"two_factor", "_required">>
M_two_factor == <<"two-factor">>
M_2fa == <<"2fa">>
M_checkpoint == <<"checkpoint">>
M_challenge == <<"challenge">>

(***************************************************************************)
(* Errors thrown by the API client: a top-level message, the message of    *)
(* the response body (empty when there is none) and whether the body       *)
(* carries two_factor_info.                                                *)
(***************************************************************************)
ApiError(message, bodyMessage, info) ==
  [message |-> message, body |-> bodyMessage, tfi |-> info]

NoError == ApiError(<<>>, <<>>, FALSE)

Errors ==
  { ApiError(<<"bad_password">>, <<>>, FALSE),
    ApiError(<<"400", " ", "checkpoint", "_required">>, <<"checkpoint", "_required">>, FALSE),
    ApiError(<<"400", " ", "bad_request">>, <<"challenge", "_required">>, FALSE),
    ApiError(<<"400", " ", "two_factor", "_required">>, <<"two_factor", "_required">>, TRUE),
    ApiError(<<"two-factor", " ", "code", " ", "needed">>, <<>>, FALSE),
    ApiError(<<"challenge", "_required", " ", "two-factor">>, <<>>, FALSE) }

normalizeApiError(error) ==
  LET full == toLowerCase(error.message \o <<" ">> \o error.body)
  IN [ message |-> error.message,
       full |-> full,
       isCheckpoint |-> includes(full, M_checkpoint_required),
       isChallenge |-> includes(full, M_challenge_required),
       isTwoFactor |-> \/ includes(full, M_two_factor_required)
                       \/ includes(full, M_two_factor)
                       \/ includes(full, M_2fa) ]

isRecoverablePreLoginError(error) ==
  LET parsed == normalizeApiError(error)
  IN parsed.isCheckpoint \/ parsed.isChallenge \/ parsed.isTwoFactor

\* login() of login.js matches on error.message alone.
errorMsgA(error) == error.message

\* login() of the second variant prefers the body message.
errorMsgB(error) == IF error.body # <<>> THEN error.body ELSE error.message

errorMsg(variant, error) ==
  IF variant = "loginA" THEN errorMsgA(error) ELSE errorMsgB(error)

isCheckpointMsg(msg) == includes(msg, M_checkpoint) \/ includes(msg, M_challenge)

isTwoFactorMsg(msg) == includes(msg, M_two_factor)


(***************************************************************************)
(* The client state (ig.state): the cookie jar is an opaque token, the     *)
(* device is derived from the username, the constants come with the        *)
(* library.                                                                *)
(***************************************************************************)
Keys == {"constants", "cookies", "device"}
KeyOrder == <<"constants", "cookies", "device">>

IgApiClient == [cookies |-> NoCookie, device |-> NoUser, constants |-> "lib"]

generateDevice(client, username) == [client EXCEPT !.device = username]

\* ig.state.serialize(): the constants, the cookie jar and every own field.
serialize(client) ==
  [has |-> Keys, cookies |-> client.cookies, device |-> client.device,
   constants |-> client.constants]

\* A save that drops the cookie jar instead of the constants.
deleteConstants_cookies(obj) == [obj EXCEPT !.has = @ \ {"cookies"}, !.cookies = NoCookie]

\* delete serialized.constants
deleteConstants(obj) == [obj EXCEPT !.has = @ \ {"constants"}, !.constants = ""]

\* ig.state.deserialize(obj): a non-object throws, each key present is restored.
deserializeThrows(parsed) == ~parsed.isObject

deserialize(client, obj) ==
  [cookies |-> IF "cookies" \in obj.has THEN obj.cookies ELSE client.cookies,
   device |-> IF "device" \in obj.has THEN obj.device ELSE client.device,
   constants |-> IF "constants" \in obj.has THEN obj.constants ELSE client.constants]

(***************************************************************************)
(* JSON text: a sequence of chunks, an opening brace, one chunk for each   *)
(* key and a closing brace.  JSON.parse throws on anything that is not a   *)
(* complete value.                                                         *)
(***************************************************************************)
Chunk(k, tok, s) == [k |-> k, tok |-> tok, s |-> s]

KeyChunk(obj, k) ==
  CASE k = "cookies" -> Chunk(k, obj.cookies, "")
    [] k = "device" -> Chunk(k, NoCookie, obj.device)
    [] OTHER -> Chunk(k, NoCookie, obj.constants)

RECURSIVE KeyChunks(_, _)
KeyChunks(obj, i) ==
  IF i > Len(KeyOrder) THEN <<>>
  ELSE (IF KeyOrder[i] \in obj.has THEN <<KeyChunk(obj, KeyOrder[i])>> ELSE <<>>)
       \o KeyChunks(obj, i + 1)

\* JSON.stringify(obj, null, indent)
JSONstringify(obj, indent) ==
  <<Chunk("{", indent, "")>> \o KeyChunks(obj, 1) \o <<Chunk("}", indent, "")>>

EmptyObj == [has |-> {}, cookies |-> NoCookie, device |-> NoUser, constants |-> ""]

RECURSIVE ParseChunks(_, _, _)
ParseChunks(text, i, obj) ==
  IF i >= Len(text) THEN obj
  ELSE LET c == text[i]
           next == CASE c.k = "cookies" -> [obj EXCEPT !.has = @ \cup {c.k}, !.cookies = c.tok]
                     [] c.k = "device" -> [obj EXCEPT !.has = @ \cup {c.k}, !.device = c.s]
                     [] OTHER -> [obj EXCEPT !.has = @ \cup {c.k}, !.constants = c.s]
       IN ParseChunks(text, i + 1, next)

IsObjectText(text) ==
  /\ Len(text) >= 2
  /\ text[1].k = "{"
  /\ text[Len(text)].k = "}"
  /\ \A i \in 2..(Len(text) - 1) : text[i].k \in Keys

IsScalarText(text) == Len(text) = 1 /\ text[1].k = "scalar"

\* JSON.parse(text): ok is FALSE when it throws a SyntaxError.
JSONparse(text) ==
  IF IsObjectText(text)
  THEN [ok |-> TRUE, isObject |-> TRUE, obj |-> ParseChunks(text, 2, EmptyObj)]
  ELSE [ok |-> IsScalarText(text), isObject |-> FALSE, obj |-> EmptyObj]

MalformedText == <<Chunk("{", 0, ""), Chunk("cookies", NoCookie, "")>>
ScalarText == <<Chunk("scalar", 0, "")>>

(***************************************************************************)
(* Files.                                                                  *)
(***************************************************************************)
SESSION_FILE == <<".", "session">>
sessions_dir == "sessions"

getSessionFilePath(username) == <<sessions_dir, username>>

Paths == {SESSION_FILE} \cup {getSessionFilePath(u) : u \in Usernames}

File(text) == [exists |-> TRUE, text |-> text]
NoFile == [exists |-> FALSE, text |-> <<>>]

\* readJson / JSON.parse(fs.readFileSync(path))
readJson(file) == JSONparse(file.text)

\* What saveSession writes for a client.
saveSessionText(client) == JSONstringify(deleteConstants(serialize(client)), 2)

\* What login() writes: JSON.stringify(sessionData).
loginSessionText(client) == JSONstringify(serialize(client), 0)

\* What the a.js main writes.
mainSessionText(client) == JSONstringify(deleteConstants(serialize(client)), 0)

TextTokens(text) == {text[i].tok : i \in {j \in 1..Len(text) : text[j].k = "cookies"}} \ {NoCookie}


(***************************************************************************)
(* State.                                                                  *)
(***************************************************************************)
VARIABLES
  entry,      \* the script or exported function that is running
  user,       \* the username it acquires a session for
  pc,         \* the position in the code
  ret,        \* where createIgFromSession resumes after loginSingleAccount
  ig,         \* the client of login(), loginSingleAccount, the a.js main
  igOuter,    \* the client createIgFromSession returns
  attempts,   \* login(): the failed attempts counted so far
  err,        \* the error caught from the last failed login call
  calls,      \* the external calls made in this run, in order
  result,     \* how the run ended: "ok", "fail" (throw), "undef", "none"
  reused,     \* reusedSession of the result loginSingleAccount reports
  validated,  \* whether each client passed a probe or login since it was loaded
  files,      \* the file system: the session file at each path
  files0,     \* the files as they were when the run started
  valid,      \* the session tokens the service accepts
  wr,         \* the text writeFileSync is writing
  postFlow,   \* the post-login flow this run deferred by process.nextTick
  obs,        \* what a concurrent reader of a session file last saw
  runs,       \* runs started so far
  prev,       \* how the previous run ended
  classified, \* the classification a caller got for an error
  cmd,        \* the login command: its accounts, results and exit code
  up          \* the upload run: the bucket, the upload state, its progress

vars == <<entry, user, pc, ret, ig, igOuter, attempts, err, calls, result, reused,
          validated, files, files0, valid, wr, postFlow, obs, runs, prev,
          classified, cmd, up>>

Entries == {"loginSingleAccount", "createIgFromSession", "loginA", "loginB",
            "main", "uploadReel", "uploadJsReel", "uploadJsVideo"}

\* process.env.IG_USERNAME
IG_USERNAME == "demo"

UsersOf(e) ==
  IF e \in {"loginSingleAccount", "createIgFromSession"} THEN Usernames ELSE {IG_USERNAME}

FirstPc(e) ==
  CASE e = "loginSingleAccount" -> "S_start"
    [] e \in {"loginA", "loginB"} -> "L_start"
    [] e = "createIgFromSession" -> "C_start"
    [] e = "main" -> "M_start"
    [] e = "uploadReel" -> "U_start"
    [] e \in {"uploadJsReel", "uploadJsVideo"} -> "J_start"
    [] OTHER -> "idle"

NoWrite == [path |-> SESSION_FILE, data |-> <<>>, before |-> NoFile]
NoObs == [seen |-> FALSE, path |-> SESSION_FILE, file |-> NoFile,
          writing |-> FALSE, before |-> NoFile, after |-> NoFile]
NoPrev == [entry |-> "idle", user |-> NoUser, result |-> "none", reused |-> FALSE]

\* No error classified yet.
NoClass == [by |-> "none", isCheckpoint |-> FALSE, isChallenge |-> FALSE,
            isTwoFactor |-> FALSE]

\* The login command is not running.
NoCmd == [active |-> FALSE, usernames |-> <<>>, i |-> 0, delayMs |-> 0,
          results |-> <<>>, events |-> <<>>, exitCode |-> 0]

\* null, where an item of the bucket is expected.
NoItem == [Key |-> <<>>, LastModified |-> 0]

\* The upload-state file of a username that has none yet.
NoStateFile == [exists |-> FALSE, kind |-> "none", hasKeys |-> FALSE,
                uploaded_keys |-> <<>>, last_uploaded |-> <<>>]

\* No upload run.
NoUp == [active |-> FALSE, n |-> 0, file |-> NoStateFile, file0 |-> NoStateFile,
         bucket |-> <<>>, pages |-> <<>>, items |-> <<>>, videos |-> <<>>, uploadedSet |-> <<>>,
         nextVideo |-> NoItem, attempt |-> 0, lastError |-> "none",
         log |-> <<>>, exit |-> -1, published |-> <<>>, procs |-> <<>>]

FileTokens == UNION {TextTokens(files[p].text) : p \in Paths}

UsedTokens ==
  (FileTokens \cup {ig.cookies, igOuter.cookies} \cup TextTokens(wr.data)
     \cup TextTokens(wr.before.text) \cup TextTokens(obs.file.text)
     \cup TextTokens(obs.before.text) \cup TextTokens(obs.after.text)) \ {NoCookie}

TokenIds == 0..(Cardinality(Paths) + 6)

\* The token of a session the service has just created.
FreshToken == CHOOSE t \in TokenIds : t \notin UsedTokens /\ \A m \in 0..(t - 1) : m \in UsedTokens

Count(log, name) == Cardinality({i \in 1..Len(log) : log[i] = name})

(***************************************************************************)
(* The files a run may find: none, a truncated text, a JSON scalar, or a   *)
(* session saved by an earlier run of the script that owns the path.       *)
(***************************************************************************)
SavedClient(username, token) ==
  [cookies |-> token, device |-> username, constants |-> "lib"]

InitFilesAt(p) ==
  IF p = SESSION_FILE
  THEN {NoFile, File(MalformedText), File(ScalarText),
        File(loginSessionText(SavedClient(IG_USERNAME, 0))),
        File(mainSessionText(SavedClient(IG_USERNAME, 0)))}
  ELSE {NoFile, File(MalformedText), File(ScalarText),
        File(saveSessionText(SavedClient(p[2], IF p[2] = "demo" THEN 1 ELSE 2)))}

Init ==
  /\ entry = "idle"
  /\ user = NoUser
  /\ pc = "idle"
  /\ ret = "none"
  /\ ig = IgApiClient
  /\ igOuter = IgApiClient
  /\ attempts = 0
  /\ err = NoError
  /\ calls = <<>>
  /\ result = "none"
  /\ reused = FALSE
  /\ validated = [inner |-> FALSE, outer |-> FALSE]
  /\ \E p \in Paths : \E f \in InitFilesAt(p) :
       files = [q \in Paths |-> IF q = p THEN f ELSE NoFile]
  /\ files0 = files
  /\ valid = UNION {TextTokens(files[p].text) : p \in Paths}
  /\ wr = NoWrite
  /\ postFlow = "none"
  /\ obs = NoObs
  /\ runs = 0
  /\ prev = NoPrev
  /\ classified = NoClass
  /\ cmd = NoCmd
  /\ up = NoUp

(***************************************************************************)
(* Ends of a run.                                                          *)
(***************************************************************************)
\* An exception leaves the entry point.
Throw ==
  /\ pc' = "done"
  /\ result' = "fail"
  /\ ret' = "none"

Log(names) == calls' = calls \o names

\* What a call adds to the log: its name, and "failed" when it throws.
Outcome(name, ok) == IF ok THEN <<name>> ELSE <<name, "failed">>

\* The state a run starts in: fresh locals, the files as they are.
Begin(e, u) ==
  /\ entry' = e
  /\ user' = u
  /\ pc' = FirstPc(e)
  /\ ret' = "none"
  /\ ig' = IgApiClient
  /\ igOuter' = IgApiClient
  /\ attempts' = 0
  /\ err' = NoError
  /\ calls' = <<>>
  /\ result' = "none"
  /\ reused' = FALSE
  /\ validated' = [inner |-> FALSE, outer |-> FALSE]
  /\ valid' = valid \cap FileTokens
  /\ runs' = runs + 1
  /\ postFlow' = "none"
  /\ files0' = files
  /\ UNCHANGED <<files, wr, obs, classified, cmd, up>>

\* A script is started, or an exported function is called, with a username.
Start ==
  /\ pc = "idle"
  /\ \E e \in Entries : \E u \in UsersOf(e) : Begin(e, u)
  /\ UNCHANGED prev

\* The login command acquires the session of a first account.
StartAccount ==
  /\ pc = "idle"
  /\ \E u \in Usernames : Begin("loginSingleAccount", u)
  /\ UNCHANGED prev

\* The login command goes on to its next account, or is run again.
NextAccount ==
  /\ pc = "done"
  /\ runs < MaxRuns
  /\ \E u \in Usernames : Begin("loginSingleAccount", u)
  /\ prev' = [entry |-> entry, user |-> user, result |-> result, reused |-> reused]

\* The service ends a session between two runs.
Expire ==
  /\ pc \in {"idle", "done"}
  /\ \E t \in valid : valid' = valid \ {t}
  /\ UNCHANGED <<entry, files0, classified, cmd, up, user, pc, ret, ig, igOuter, attempts, err, calls, result,
                 reused, validated, files, wr, postFlow, obs, runs, prev>>

(***************************************************************************)
(* fs.writeFileSync(path, text): the file is opened with truncation, then  *)
(* the text is written.  Every save of the scripts is followed by the      *)
(* successful return of the entry point.                                   *)
(***************************************************************************)
writeFileSync_open ==
  /\ pc = "write_open"
  /\ files' = [files EXCEPT ![wr.path] = File(<<>>)]
  /\ pc' = "write_data"
  /\ UNCHANGED <<entry, files0, classified, cmd, up, user, ret, ig, igOuter, attempts, err, calls, result, reused,
                 validated, valid, wr, postFlow, obs, runs, prev>>

writeFileSync_data ==
  /\ pc = "write_data"
  /\ files' = [files EXCEPT ![wr.path] = File(wr.data)]
  /\ wr' = NoWrite
  /\ Log(<<"write">>)
  /\ pc' = "return_ok"
  /\ UNCHANGED <<entry, files0, classified, cmd, up, user, ret, ig, igOuter, attempts, err, result, reused,
                 validated, valid, postFlow, obs, runs, prev>>

\* return after a save; loginSingleAccount called by createIgFromSession
\* returns into it.
ReturnOk ==
  /\ pc = "return_ok"
  /\ IF ret = "none"
     THEN pc' = "done" /\ result' = "ok" /\ UNCHANGED ret
     ELSE pc' = ret /\ ret' = "none" /\ UNCHANGED result
  /\ UNCHANGED <<entry, files0, classified, cmd, up, user, ig, igOuter, attempts, err, calls, reused,
                 validated, files, valid, wr, postFlow, obs, runs, prev>>


(***************************************************************************)
(* loginSingleAccount({ username, password, config })                      *)
(***************************************************************************)
\* A restore whose result is ignored: the fresh login follows all the same.
ReturnReused_fallthrough ==
  pc' = "S_prelogin" /\ UNCHANGED <<result, reused, ret>>

\* return { ok: true, reusedSession: true } of loginSingleAccount.
ReturnReused ==
  IF ret = "none"
  THEN pc' = "done" /\ result' = "ok" /\ reused' = TRUE /\ UNCHANGED ret
  ELSE pc' = ret /\ ret' = "none" /\ UNCHANGED <<result, reused>>

\* new IgApiClient(), generateDevice(username), getSessionFilePath.
loginSingleAccount ==
  /\ pc = "S_start"
  /\ ig' = generateDevice(IgApiClient, user)
  /\ validated' = [validated EXCEPT !.inner = FALSE]
  /\ Log(<<"loginSingleAccount">>)
  /\ pc' = "S_restore"
  /\ UNCHANGED <<entry, files0, classified, cmd, up, user, ret, igOuter, attempts, err, result, reused,
                 files, valid, wr, postFlow, obs, runs, prev>>

\* tryRestoreSession up to the probe: existsSync, readJson, deserialize.  A
\* missing file returns false; a throw is caught by loginSingleAccount.
tryRestoreSession ==
  /\ pc = "S_restore"
  /\ LET file == files[getSessionFilePath(user)]
         parsed == readJson(file)
     IN IF ~file.exists
        THEN /\ Log(<<"exists">>)
             /\ pc' = "S_prelogin"
             /\ UNCHANGED ig
        ELSE IF ~parsed.ok \/ deserializeThrows(parsed)
        THEN /\ Log(<<"exists", "read", "failed">>)
             /\ pc' = "S_prelogin"
             /\ UNCHANGED ig
        ELSE /\ Log(<<"exists", "read">>)
             /\ ig' = deserialize(ig, parsed.obj)
             /\ pc' = "S_probe"
  /\ UNCHANGED <<entry, files0, classified, cmd, up, user, ret, igOuter, attempts, err, result, reused,
                 validated, files, valid, wr, postFlow, obs, runs, prev>>

\* await ig.account.currentUser() of tryRestoreSession.
tryRestoreSession_probe ==
  /\ pc = "S_probe"
  /\ \E ok \in BOOLEAN :
       /\ ok => ig.cookies \in valid
       /\ Log(Outcome("probe", ok))
       /\ IF ok
          THEN /\ validated' = [validated EXCEPT !.inner = TRUE]
               /\ ReturnReused
          ELSE /\ pc' = "S_prelogin"
               /\ UNCHANGED <<validated, result, reused, ret>>
  /\ UNCHANGED <<entry, files0, classified, cmd, up, user, ig, igOuter, attempts, err,
                 files, valid, wr, postFlow, obs, runs, prev>>

\* A pre-login flow whose every error is swallowed.
preLoginFlow_swallowAll ==
  /\ pc = "S_prelogin"
  /\ \/ /\ Log(<<"preLogin">>)
        /\ UNCHANGED err
     \/ /\ Log(<<"preLogin", "failed">>)
        /\ \E e \in Errors : err' = e
  /\ pc' = "S_login"
  /\ UNCHANGED <<result, ret>>
  /\ UNCHANGED <<entry, files0, classified, cmd, up, user, ig, igOuter, attempts, reused,
                 validated, files, valid, wr, postFlow, obs, runs, prev>>

\* await ig.simulate.preLoginFlow(): an error that is not recoverable is
\* thrown on; err is the error its catch block holds.
preLoginFlow ==
  /\ pc = "S_prelogin"
  /\ \/ /\ Log(<<"preLogin">>)
        /\ pc' = "S_login"
        /\ UNCHANGED <<err, result, ret>>
     \/ /\ Log(<<"preLogin", "failed">>)
        /\ \E e \in Errors :
             /\ err' = e
             /\ IF isRecoverablePreLoginError(e)
                THEN pc' = "S_login" /\ UNCHANGED <<result, ret>>
                ELSE Throw
  /\ UNCHANGED <<entry, files0, classified, cmd, up, user, ig, igOuter, attempts, reused,
                 validated, files, valid, wr, postFlow, obs, runs, prev>>

\* A performLoginWithChallenges that takes every error for a checkpoint.
performLoginWithChallenges_allCheckpoint ==
  /\ pc = "S_login"
  /\ \/ /\ Log(<<"login">>)
        /\ ig' = [ig EXCEPT !.cookies = FreshToken]
        /\ valid' = valid \cup {FreshToken}
        /\ validated' = [validated EXCEPT !.inner = TRUE]
        /\ pc' = "S_save"
        /\ err' = NoError
        /\ UNCHANGED <<result, ret>>
     \/ \E e \in Errors :
          /\ Log(<<"login", "failed">>)
          /\ err' = e
          /\ UNCHANGED <<ig, valid, validated>>
          /\ pc' = "S_cp"
          /\ UNCHANGED <<result, ret>>
  /\ UNCHANGED <<entry, files0, classified, cmd, up, user, igOuter, attempts, reused,
                 files, wr, postFlow, obs, runs, prev>>

\* performLoginWithChallenges: ig.account.login and the classification of
\* its error; the error of the pre-login flow is out of scope by now.
performLoginWithChallenges ==
  /\ pc = "S_login"
  /\ \/ /\ Log(<<"login">>)
        /\ ig' = [ig EXCEPT !.cookies = FreshToken]
        /\ valid' = valid \cup {FreshToken}
        /\ validated' = [validated EXCEPT !.inner = TRUE]
        /\ pc' = "S_save"
        /\ err' = NoError
        /\ UNCHANGED <<result, ret>>
     \/ \E e \in Errors :
          LET parsed == normalizeApiError(e)
          IN /\ Log(<<"login", "failed">>)
             /\ err' = e
             /\ UNCHANGED <<ig, valid, validated>>
             /\ IF parsed.isTwoFactor
                THEN pc' = "S_2fa" /\ UNCHANGED <<result, ret>>
                ELSE IF parsed.isCheckpoint \/ parsed.isChallenge
                THEN pc' = "S_cp" /\ UNCHANGED <<result, ret>>
                ELSE Throw
  /\ UNCHANGED <<entry, files0, classified, cmd, up, user, igOuter, attempts, reused,
                 files, wr, postFlow, obs, runs, prev>>

\* handleTwoFactor up to the prompt: without two_factor_info it throws; an
\* empty code throws.
handleTwoFactor ==
  /\ pc = "S_2fa"
  /\ IF ~err.tfi
     THEN Throw /\ UNCHANGED calls
     ELSE \/ Log(<<"ask2fa", "empty">>) /\ Throw
          \/ /\ Log(<<"ask2fa">>)
             /\ pc' = "S_2fa_submit"
             /\ UNCHANGED <<result, ret>>
  /\ UNCHANGED <<entry, files0, classified, cmd, up, user, ig, igOuter, attempts, err, reused,
                 validated, files, valid, wr, postFlow, obs, runs, prev>>

\* A submission whose rejection is ignored: the session is saved all the same.
handleTwoFactor_submit_saved ==
  /\ pc = "S_2fa_submit"
  /\ \/ /\ Log(<<"twoFactorLogin">>)
        /\ ig' = [ig EXCEPT !.cookies = FreshToken]
        /\ valid' = valid \cup {FreshToken}
        /\ validated' = [validated EXCEPT !.inner = TRUE]
     \/ /\ Log(<<"twoFactorLogin", "failed">>)
        /\ UNCHANGED <<ig, valid, validated>>
  /\ pc' = "S_save"
  /\ UNCHANGED <<result, ret>>
  /\ UNCHANGED <<entry, files0, classified, cmd, up, user, igOuter, attempts, err, reused,
                 files, wr, postFlow, obs, runs, prev>>

\* await ig.account.twoFactorLogin({...}).
handleTwoFactor_submit ==
  /\ pc = "S_2fa_submit"
  /\ \/ /\ Log(<<"twoFactorLogin">>)
        /\ ig' = [ig EXCEPT !.cookies = FreshToken]
        /\ valid' = valid \cup {FreshToken}
        /\ validated' = [validated EXCEPT !.inner = TRUE]
        /\ pc' = "S_save"
        /\ UNCHANGED <<result, ret>>
     \/ /\ Log(<<"twoFactorLogin", "failed">>)
        /\ Throw
        /\ UNCHANGED <<ig, valid, validated>>
  /\ UNCHANGED <<entry, files0, classified, cmd, up, user, igOuter, attempts, err, reused,
                 files, wr, postFlow, obs, runs, prev>>

\* A handleCheckpoint that submits the code whether it is empty or not.
handleCheckpoint_submitEmpty ==
  /\ pc = "S_cp"
  /\ \/ Log(<<"auto", "askCode", "empty">>)
     \/ Log(<<"auto", "askCode">>)
  /\ pc' = "S_cp_submit"
  /\ UNCHANGED <<result, ret>>
  /\ UNCHANGED <<entry, files0, classified, cmd, up, user, ig, igOuter, attempts, err, reused,
                 validated, files, valid, wr, postFlow, obs, runs, prev>>

\* handleCheckpoint up to the prompt: challenge.auto(true), whose failure is
\* ignored, then askUser; an empty code throws.
handleCheckpoint ==
  /\ pc = "S_cp"
  /\ \/ Log(<<"auto", "askCode", "empty">>) /\ Throw
     \/ /\ Log(<<"auto", "askCode">>)
        /\ pc' = "S_cp_submit"
        /\ UNCHANGED <<result, ret>>
  /\ UNCHANGED <<entry, files0, classified, cmd, up, user, ig, igOuter, attempts, err, reused,
                 validated, files, valid, wr, postFlow, obs, runs, prev>>

\* await ig.challenge.sendSecurityCode(code): a rejected code throws; an
\* accepted code may or may not leave the client logged in.
handleCheckpoint_submit ==
  /\ pc = "S_cp_submit"
  /\ \/ /\ Log(<<"sendSecurityCode">>)
        /\ ig' = [ig EXCEPT !.cookies = FreshToken]
        /\ valid' = valid \cup {FreshToken}
        /\ pc' = "S_cp_probe"
        /\ UNCHANGED <<result, ret>>
     \/ /\ Log(<<"sendSecurityCode">>)
        /\ pc' = "S_cp_probe"
        /\ UNCHANGED <<ig, valid, result, ret>>
     \/ /\ Log(<<"sendSecurityCode", "failed">>)
        /\ Throw
        /\ UNCHANGED <<ig, valid>>
  /\ UNCHANGED <<entry, files0, classified, cmd, up, user, igOuter, attempts, err, reused,
                 validated, files, wr, postFlow, obs, runs, prev>>

\* A performLoginWithChallenges that logs in again whatever the probe says.
performLoginWithChallenges_probe_relogin ==
  /\ pc = "S_cp_probe"
  /\ \E ok \in BOOLEAN :
       /\ ok => ig.cookies \in valid
       /\ Log(Outcome("probe", ok))
       /\ IF ok
          THEN validated' = [validated EXCEPT !.inner = TRUE] /\ pc' = "S_cp_login"
          ELSE UNCHANGED validated /\ pc' = "S_cp_login"
  /\ UNCHANGED <<entry, files0, classified, cmd, up, user, ret, ig, igOuter, attempts, err, result, reused,
                 files, valid, wr, postFlow, obs, runs, prev>>

\* performLoginWithChallenges after the checkpoint: currentUser().
performLoginWithChallenges_probe ==
  /\ pc = "S_cp_probe"
  /\ \E ok \in BOOLEAN :
       /\ ok => ig.cookies \in valid
       /\ Log(Outcome("probe", ok))
       /\ IF ok
          THEN validated' = [validated EXCEPT !.inner = TRUE] /\ pc' = "S_save"
          ELSE UNCHANGED validated /\ pc' = "S_cp_login"
  /\ UNCHANGED <<entry, files0, classified, cmd, up, user, ret, ig, igOuter, attempts, err, result, reused,
                 files, valid, wr, postFlow, obs, runs, prev>>

\* performLoginWithChallenges after a failed probe: login again; its error
\* is thrown on.
performLoginWithChallenges_relogin ==
  /\ pc = "S_cp_login"
  /\ \/ /\ Log(<<"login">>)
        /\ ig' = [ig EXCEPT !.cookies = FreshToken]
        /\ valid' = valid \cup {FreshToken}
        /\ validated' = [validated EXCEPT !.inner = TRUE]
        /\ pc' = "S_save"
        /\ UNCHANGED <<err, result, ret>>
     \/ \E e \in Errors :
          /\ Log(<<"login", "failed">>)
          /\ err' = e
          /\ Throw
          /\ UNCHANGED <<ig, valid, validated>>
  /\ UNCHANGED <<entry, files0, classified, cmd, up, user, igOuter, attempts, reused,
                 files, wr, postFlow, obs, runs, prev>>

\* A save that never reaches the file.
saveSession_nowrite ==
  /\ pc = "S_save"
  /\ postFlow' = "scheduled"
  /\ pc' = "return_ok"
  /\ UNCHANGED <<entry, files0, classified, cmd, up, user, ret, ig, igOuter, attempts, err, calls, result, reused,
                 validated, files, valid, wr, obs, runs, prev>>

\* process.nextTick(postLoginFlow), then saveSession: serialize, delete the
\* constants, writeFileSync.
saveSession ==
  /\ pc = "S_save"
  /\ postFlow' = "scheduled"
  /\ wr' = [path |-> getSessionFilePath(user), data |-> saveSessionText(ig),
            before |-> files[getSessionFilePath(user)]]
  /\ pc' = "write_open"
  /\ UNCHANGED <<entry, files0, classified, cmd, up, user, ret, ig, igOuter, attempts, err, calls, result, reused,
                 validated, files, valid, obs, runs, prev>>

\* A deferred post-login flow whose failure ends the acquisition.
postLoginFlow_fatal ==
  /\ postFlow = "scheduled"
  /\ \/ /\ postFlow' = "ok"
        /\ UNCHANGED <<pc, result>>
     \/ /\ postFlow' = "failed"
        /\ pc' = "done"
        /\ result' = "fail"
  /\ UNCHANGED <<entry, files0, classified, cmd, up, user, ret, ig, igOuter, attempts, err, calls,
                 reused, validated, files, valid, wr, obs, runs, prev>>

\* The deferred post-login flow; its failure is ignored.
postLoginFlow ==
  /\ postFlow = "scheduled"
  /\ postFlow' \in {"ok", "failed"}
  /\ UNCHANGED <<entry, files0, classified, cmd, up, user, pc, ret, ig, igOuter, attempts, err, calls, result,
                 reused, validated, files, valid, wr, obs, runs, prev>>

(***************************************************************************)
(* login() of login.js ("loginA") and of its second variant ("loginB"):    *)
(* the session file is SESSION_FILE, the username IG_USERNAME.             *)
(***************************************************************************)
\* continue: the caught error goes out of scope; at the head of the while
\* loop, past maxAttempts the loop ends and login() returns undefined.
Continue(att) ==
  IF att < maxAttempts
  THEN pc' = "L_login" /\ UNCHANGED <<result, ret>>
  ELSE pc' = "done" /\ result' = "undef" /\ UNCHANGED ret

\* The end of the catch block: throw at maxAttempts, else wait and retry.
EndOfCatch(att) ==
  IF att >= maxAttempts
  THEN Throw
  ELSE pc' = "L_sleep" /\ UNCHANGED <<result, ret>>

\* After a checkpoint that was not handled: the two-factor branch, or the
\* end of the catch block.
AfterCheckpoint(variant, e, att) ==
  IF isTwoFactorMsg(IF variant = "loginA" THEN e.message ELSE errorMsgB(e))
  THEN pc' = "L_2fa" /\ UNCHANGED <<result, ret>>
  ELSE EndOfCatch(att)

\* new IgApiClient(), generateDevice, and the load of the session file; a
\* throw of JSON.parse or deserialize is caught.
login ==
  /\ pc = "L_start"
  /\ LET file == files[SESSION_FILE]
         parsed == readJson(file)
         client == generateDevice(IgApiClient, user)
     IN IF ~file.exists
        THEN /\ Log(<<"login()", "exists">>)
             /\ ig' = client
             /\ pc' = "L_login"
        ELSE IF ~parsed.ok \/ deserializeThrows(parsed)
        THEN /\ Log(<<"login()", "exists", "read", "failed">>)
             /\ ig' = client
             /\ pc' = "L_login"
        ELSE /\ Log(<<"login()", "exists", "read">>)
             /\ ig' = deserialize(client, parsed.obj)
             /\ pc' = "L_probe"
  /\ UNCHANGED <<entry, files0, classified, cmd, up, user, ret, igOuter, attempts, err, result, reused,
                 validated, files, valid, wr, postFlow, obs, runs, prev>>

\* await ig.user.info(): a valid session is returned at once.
login_probe ==
  /\ pc = "L_probe"
  /\ \E ok \in BOOLEAN :
       /\ ok => ig.cookies \in valid
       /\ Log(Outcome("probe", ok))
       /\ IF ok
          THEN /\ validated' = [validated EXCEPT !.inner = TRUE]
               /\ pc' = "done"
               /\ result' = "ok"
               /\ reused' = TRUE
          ELSE /\ pc' = "L_login"
               /\ UNCHANGED <<validated, result, reused>>
  /\ UNCHANGED <<entry, files0, classified, cmd, up, user, ret, ig, igOuter, attempts, err,
                 files, valid, wr, postFlow, obs, runs, prev>>

\* One iteration of the retry loop: ig.account.login, and in the catch block
\* attempts++ and the choice of the branch.
login_attempt ==
  /\ pc = "L_login"
  /\ \/ /\ Log(<<"login">>)
        /\ ig' = [ig EXCEPT !.cookies = FreshToken]
        /\ valid' = valid \cup {FreshToken}
        /\ validated' = [validated EXCEPT !.inner = TRUE]
        /\ pc' = "L_save"
        /\ err' = NoError
        /\ UNCHANGED <<attempts, result, ret>>
     \/ \E e \in Errors :
          /\ Log(<<"login", "failed">>)
          /\ err' = e
          /\ attempts' = attempts + 1
          /\ UNCHANGED <<ig, valid, validated>>
          /\ IF isCheckpointMsg(errorMsg(entry, e))
             THEN /\ pc' = IF entry = "loginA" THEN "LA_getChallenge" ELSE "LB_auto"
                  /\ UNCHANGED <<result, ret>>
             ELSE AfterCheckpoint(entry, e, attempts + 1)
  /\ UNCHANGED <<entry, files0, classified, cmd, up, user, igOuter, reused, files, wr, postFlow, obs, runs, prev>>

\* loginA: await ig.challenge.getChallenge(); its throw is caught and logged.
login_getChallenge ==
  /\ pc = "LA_getChallenge"
  /\ \/ /\ Log(<<"getChallenge">>)
        /\ pc' = "LA_select"
        /\ UNCHANGED <<result, ret>>
     \/ /\ Log(<<"getChallenge", "failed">>)
        /\ AfterCheckpoint(entry, err, attempts)
  /\ UNCHANGED <<entry, files0, classified, cmd, up, user, ig, igOuter, attempts, err, reused,
                 validated, files, valid, wr, postFlow, obs, runs, prev>>

\* loginA handleCheckpoint: the prompt for the method and selectVerifyMethod;
\* its throw resolves false.
handleCheckpointA_select ==
  /\ pc = "LA_select"
  /\ \/ /\ Log(<<"askChoice", "selectVerifyMethod">>)
        /\ pc' = "LA_code"
        /\ UNCHANGED <<result, ret>>
     \/ /\ Log(<<"askChoice", "selectVerifyMethod", "failed">>)
        /\ AfterCheckpoint(entry, err, attempts)
  /\ UNCHANGED <<entry, files0, classified, cmd, up, user, ig, igOuter, attempts, err, reused,
                 validated, files, valid, wr, postFlow, obs, runs, prev>>

\* loginA handleCheckpoint: the prompt for the code and challenge.code(code);
\* true makes the loop continue without waiting.
handleCheckpointA_code ==
  /\ pc = "LA_code"
  /\ \/ /\ Log(<<"askCode", "challengeCode">>)
        /\ ig' = [ig EXCEPT !.cookies = FreshToken]
        /\ valid' = valid \cup {FreshToken}
        /\ err' = NoError
        /\ Continue(attempts)
     \/ /\ Log(<<"askCode", "challengeCode", "failed">>)
        /\ AfterCheckpoint(entry, err, attempts)
        /\ UNCHANGED <<ig, valid, err>>
  /\ UNCHANGED <<entry, files0, classified, cmd, up, user, igOuter, attempts, reused,
                 validated, files, wr, postFlow, obs, runs, prev>>

\* loginB handleCheckpoint: challenge.auto(true); its throw returns false.
handleCheckpointB_auto ==
  /\ pc = "LB_auto"
  /\ \/ /\ Log(<<"auto">>)
        /\ pc' = "LB_code"
        /\ UNCHANGED <<result, ret>>
     \/ /\ Log(<<"auto", "failed">>)
        /\ AfterCheckpoint(entry, err, attempts)
  /\ UNCHANGED <<entry, files0, classified, cmd, up, user, ig, igOuter, attempts, err, reused,
                 validated, files, valid, wr, postFlow, obs, runs, prev>>

\* loginB handleCheckpoint: the prompt and sendSecurityCode; true only when
\* the result carries logged_in_user.
handleCheckpointB_code ==
  /\ pc = "LB_code"
  /\ \/ /\ Log(<<"askCode", "sendSecurityCode">>)
        /\ ig' = [ig EXCEPT !.cookies = FreshToken]
        /\ valid' = valid \cup {FreshToken}
        /\ err' = NoError
        /\ Continue(attempts)
     \/ /\ Log(<<"askCode", "sendSecurityCode", "failed">>)
        /\ AfterCheckpoint(entry, err, attempts)
        /\ UNCHANGED <<ig, valid, err>>
  /\ UNCHANGED <<entry, files0, classified, cmd, up, user, igOuter, attempts, reused,
                 validated, files, wr, postFlow, obs, runs, prev>>

\* The two-factor branch: the prompt, then ig.account.login with the code.
login_twoFactor ==
  /\ pc = "L_2fa"
  /\ \/ /\ Log(<<"ask2fa", "loginCode">>)
        /\ ig' = [ig EXCEPT !.cookies = FreshToken]
        /\ valid' = valid \cup {FreshToken}
        /\ validated' = [validated EXCEPT !.inner = TRUE]
        /\ pc' = "L_save"
        /\ UNCHANGED <<result, ret>>
     \/ /\ Log(<<"ask2fa", "loginCode", "failed">>)
        /\ EndOfCatch(attempts)
        /\ UNCHANGED <<ig, valid, validated>>
  /\ UNCHANGED <<entry, files0, classified, cmd, up, user, igOuter, attempts, err, reused,
                 files, wr, postFlow, obs, runs, prev>>

\* await new Promise(resolve => setTimeout(resolve, 5000))
login_sleep ==
  /\ pc = "L_sleep"
  /\ Log(<<"sleep">>)
  /\ pc' = "L_login"
  /\ err' = NoError
  /\ UNCHANGED <<entry, files0, classified, cmd, up, user, ret, ig, igOuter, attempts, result, reused,
                 validated, files, valid, wr, postFlow, obs, runs, prev>>

\* serialize and fs.writeFileSync(SESSION_FILE, JSON.stringify(sessionData))
login_save ==
  /\ pc = "L_save"
  /\ wr' = [path |-> SESSION_FILE, data |-> loginSessionText(ig),
            before |-> files[SESSION_FILE]]
  /\ pc' = "write_open"
  /\ UNCHANGED <<entry, files0, classified, cmd, up, user, ret, ig, igOuter, attempts, err, calls, result, reused,
                 validated, files, valid, postFlow, obs, runs, prev>>

(***************************************************************************)
(* The main of a.js: IG_USERNAME is its USERNAME, the file ./session.json. *)
(***************************************************************************)
\* generateDevice and the load of the session file: nothing catches a throw
\* of JSON.parse or deserialize; a loaded session is reported as logged in.
main ==
  /\ pc = "M_start"
  /\ LET file == files[SESSION_FILE]
         parsed == readJson(file)
         client == generateDevice(IgApiClient, user)
     IN IF ~file.exists
        THEN /\ Log(<<"main", "exists">>)
             /\ ig' = client
             /\ pc' = "M_prelogin"
             /\ UNCHANGED <<result, ret>>
        ELSE IF ~parsed.ok \/ deserializeThrows(parsed)
        THEN /\ Log(<<"main", "exists", "read", "failed">>)
             /\ ig' = client
             /\ Throw
        ELSE /\ Log(<<"main", "exists", "read">>)
             /\ ig' = deserialize(client, parsed.obj)
             /\ pc' = "done"
             /\ result' = "ok"
             /\ UNCHANGED ret
  /\ UNCHANGED <<entry, files0, classified, cmd, up, user, igOuter, attempts, err, reused,
                 validated, files, valid, wr, postFlow, obs, runs, prev>>

\* await ig.simulate.preLoginFlow(), then the pause of 7000 ms.
main_preLoginFlow ==
  /\ pc = "M_prelogin"
  /\ \/ /\ Log(<<"preLogin", "sleep">>)
        /\ pc' = "M_login"
        /\ UNCHANGED <<result, ret>>
     \/ /\ Log(<<"preLogin", "failed">>)
        /\ Throw
  /\ UNCHANGED <<entry, files0, classified, cmd, up, user, ig, igOuter, attempts, err, reused,
                 validated, files, valid, wr, postFlow, obs, runs, prev>>

\* await ig.account.login(USERNAME, PASSWORD)
main_login ==
  /\ pc = "M_login"
  /\ \/ /\ Log(<<"login">>)
        /\ ig' = [ig EXCEPT !.cookies = FreshToken]
        /\ valid' = valid \cup {FreshToken}
        /\ validated' = [validated EXCEPT !.inner = TRUE]
        /\ pc' = "M_post"
        /\ UNCHANGED <<err, result, ret>>
     \/ \E e \in Errors :
          /\ Log(<<"login", "failed">>)
          /\ err' = e
          /\ Throw
          /\ UNCHANGED <<ig, valid, validated>>
  /\ UNCHANGED <<entry, files0, classified, cmd, up, user, igOuter, attempts, reused,
                 files, wr, postFlow, obs, runs, prev>>

\* await ig.simulate.postLoginFlow(), then serialize, delete the constants
\* and writeFileSync.
main_save ==
  /\ pc = "M_post"
  /\ \/ /\ Log(<<"postLogin">>)
        /\ wr' = [path |-> SESSION_FILE, data |-> mainSessionText(ig),
                  before |-> files[SESSION_FILE]]
        /\ pc' = "write_open"
        /\ UNCHANGED <<result, ret>>
     \/ /\ Log(<<"postLogin", "failed">>)
        /\ Throw
        /\ UNCHANGED wr
  /\ UNCHANGED <<entry, files0, classified, cmd, up, user, ig, igOuter, attempts, err, reused,
                 validated, files, valid, postFlow, obs, runs, prev>>

(***************************************************************************)
(* uploadReel of the standalone upload script.                             *)
(***************************************************************************)
\* The session file must exist; it is parsed and deserialized.
uploadReel ==
  /\ pc = "U_start"
  /\ LET file == files[SESSION_FILE]
         parsed == readJson(file)
     IN IF ~file.exists
        THEN /\ Log(<<"uploadReel", "exists">>)
             /\ Throw
             /\ UNCHANGED ig
        ELSE IF ~parsed.ok \/ deserializeThrows(parsed)
        THEN /\ Log(<<"uploadReel", "exists", "read", "failed">>)
             /\ Throw
             /\ UNCHANGED ig
        ELSE /\ Log(<<"uploadReel", "exists", "read">>)
             /\ ig' = deserialize(IgApiClient, parsed.obj)
             /\ pc' = "U_publish"
             /\ UNCHANGED <<result, ret>>
  /\ UNCHANGED <<entry, files0, classified, cmd, up, user, igOuter, attempts, err, reused,
                 validated, files, valid, wr, postFlow, obs, runs, prev>>

\* await ig.simulate.postLoginFlow(), then ig.publish.video({...}).
uploadReel_publish ==
  /\ pc = "U_publish"
  /\ \/ /\ Log(<<"postLogin", "failed">>)
        /\ Throw
     \/ /\ Log(<<"postLogin", "publish", "failed">>)
        /\ Throw
     \/ /\ Log(<<"postLogin", "publish">>)
        /\ pc' = "done"
        /\ result' = "ok"
        /\ UNCHANGED ret
  /\ UNCHANGED <<entry, files0, classified, cmd, up, user, ig, igOuter, attempts, err, reused,
                 validated, files, valid, wr, postFlow, obs, runs, prev>>

(***************************************************************************)
(* main of upload.js, in its reel variant ("uploadJsReel") and its video   *)
(* variant ("uploadJsVideo"): every failure ends in process.exit(1), the   *)
(* result "fail" of the run.                                               *)
(***************************************************************************)
\* The argument, the session file and its load; process.exit(1) without a
\* video path, without a session file, and in the catch block.
uploadJs ==
  /\ pc = "J_start"
  /\ \E videoPath \in BOOLEAN :
       LET file == files[SESSION_FILE]
           parsed == readJson(file)
       IN IF ~videoPath
          THEN /\ Log(<<"upload.js", "usage">>)
               /\ Throw
               /\ UNCHANGED ig
          ELSE IF ~file.exists
          THEN /\ Log(<<"upload.js", "exists">>)
               /\ Throw
               /\ UNCHANGED ig
          ELSE IF ~parsed.ok \/ deserializeThrows(parsed)
          THEN /\ Log(<<"upload.js", "exists", "read", "failed">>)
               /\ Throw
               /\ UNCHANGED ig
          ELSE /\ Log(<<"upload.js", "exists", "read">>)
               /\ ig' = deserialize(generateDevice(IgApiClient, user), parsed.obj)
               /\ pc' = "J_probe"
               /\ UNCHANGED <<result, ret>>
  /\ UNCHANGED <<entry, files0, classified, cmd, up, user, igOuter, attempts, err, reused,
                 validated, files, valid, wr, postFlow, obs, runs, prev>>

\* A script that uploads whatever the probe says.
uploadJs_probe_ignored ==
  /\ pc = "J_probe"
  /\ \E ok \in BOOLEAN :
       /\ ok => ig.cookies \in valid
       /\ Log(Outcome("probe", ok))
       /\ validated' = [validated EXCEPT !.inner = ok]
       /\ pc' = "J_upload"
  /\ UNCHANGED <<entry, files0, classified, cmd, up, user, ret, ig, igOuter, attempts, err,
                 result, reused, files, valid, wr, postFlow, obs, runs, prev>>

\* await ig.user.info(...): its failure ends the script with status 1.
uploadJs_probe ==
  /\ pc = "J_probe"
  /\ \E ok \in BOOLEAN :
       /\ ok => ig.cookies \in valid
       /\ Log(Outcome("probe", ok))
       /\ IF ok
          THEN /\ validated' = [validated EXCEPT !.inner = TRUE]
               /\ pc' = "J_upload"
               /\ UNCHANGED <<result, ret>>
          ELSE /\ Throw
               /\ UNCHANGED validated
  /\ UNCHANGED <<entry, files0, classified, cmd, up, user, ig, igOuter, attempts, err, reused,
                 files, valid, wr, postFlow, obs, runs, prev>>

\* uploadReel / uploadVideo of upload.js: the video file must exist, then
\* publishService.start(); a throw is caught by main, which exits with 1.
uploadJs_upload ==
  /\ pc = "J_upload"
  /\ \/ /\ Log(<<"videoExists", "failed">>)
        /\ Throw
     \/ /\ Log(<<"videoExists", "publish", "failed">>)
        /\ Throw
     \/ /\ Log(<<"videoExists", "publish">>)
        /\ pc' = "done"
        /\ result' = "ok"
        /\ UNCHANGED ret
  /\ UNCHANGED <<entry, files0, classified, cmd, up, user, ig, igOuter, attempts, err, reused,
                 validated, files, valid, wr, postFlow, obs, runs, prev>>

(***************************************************************************)
(* createIgFromSession(config, username)                                   *)
(***************************************************************************)
\* Without a session file loginSingleAccount is called first.
createIgFromSession ==
  /\ pc = "C_start"
  /\ Log(<<"createIgFromSession", "exists">>)
  /\ IF ~files[getSessionFilePath(user)].exists
     THEN pc' = "S_start" /\ ret' = "C_new"
     ELSE pc' = "C_new" /\ UNCHANGED ret
  /\ UNCHANGED <<entry, files0, classified, cmd, up, user, ig, igOuter, attempts, err, result, reused,
                 validated, files, valid, wr, postFlow, obs, runs, prev>>

\* new IgApiClient(), then in the try block the read and deserialize; a
\* throw goes to the catch block, which calls loginSingleAccount.
createIgFromSession_load ==
  /\ pc = "C_new"
  /\ LET file == files[getSessionFilePath(user)]
         parsed == readJson(file)
         client == generateDevice(IgApiClient, user)
     IN /\ IF ~file.exists \/ ~parsed.ok \/ deserializeThrows(parsed)
           THEN /\ Log(<<"read", "failed">>)
                /\ igOuter' = client
                /\ pc' = "S_start"
                /\ ret' = "C_reload"
           ELSE /\ Log(<<"read">>)
                /\ igOuter' = deserialize(client, parsed.obj)
                /\ pc' = "C_probe"
                /\ UNCHANGED ret
  /\ validated' = [validated EXCEPT !.outer = FALSE]
  /\ UNCHANGED <<entry, files0, classified, cmd, up, user, ig, attempts, err, result, reused,
                 files, valid, wr, postFlow, obs, runs, prev>>

\* await ig.account.currentUser() in the try block.
createIgFromSession_probe ==
  /\ pc = "C_probe"
  /\ \E ok \in BOOLEAN :
       /\ ok => igOuter.cookies \in valid
       /\ Log(Outcome("probe", ok))
       /\ IF ok
          THEN /\ validated' = [validated EXCEPT !.outer = TRUE]
               /\ pc' = "done"
               /\ result' = "ok"
               /\ UNCHANGED ret
          ELSE /\ pc' = "S_start"
               /\ ret' = "C_reload"
               /\ UNCHANGED <<validated, result>>
  /\ UNCHANGED <<entry, files0, classified, cmd, up, user, ig, igOuter, attempts, err, reused,
                 files, valid, wr, postFlow, obs, runs, prev>>

\* The catch block after loginSingleAccount: read and deserialize again.
createIgFromSession_reload ==
  /\ pc = "C_reload"
  /\ LET file == files[getSessionFilePath(user)]
         parsed == readJson(file)
     IN /\ IF ~file.exists \/ ~parsed.ok \/ deserializeThrows(parsed)
           THEN Log(<<"read", "failed">>) /\ Throw /\ UNCHANGED <<igOuter, validated>>
           ELSE /\ Log(<<"read">>)
                /\ igOuter' = deserialize(igOuter, parsed.obj)
                /\ validated' = [validated EXCEPT !.outer = FALSE]
                /\ pc' = "C_reprobe"
                /\ UNCHANGED <<result, ret>>
  /\ UNCHANGED <<entry, files0, classified, cmd, up, user, ig, attempts, err, reused,
                 files, valid, wr, postFlow, obs, runs, prev>>

\* await ig.account.currentUser() in the catch block: its throw leaves
\* createIgFromSession.
createIgFromSession_reprobe ==
  /\ pc = "C_reprobe"
  /\ \E ok \in BOOLEAN :
       /\ ok => igOuter.cookies \in valid
       /\ Log(Outcome("probe", ok))
       /\ IF ok
          THEN /\ validated' = [validated EXCEPT !.outer = TRUE]
               /\ pc' = "done"
               /\ result' = "ok"
               /\ UNCHANGED ret
          ELSE /\ Throw
               /\ UNCHANGED validated
  /\ UNCHANGED <<entry, files0, classified, cmd, up, user, ig, igOuter, attempts, err, reused,
                 files, valid, wr, postFlow, obs, runs, prev>>

(***************************************************************************)
(* Another process reads a session file while the scripts run.             *)
(***************************************************************************)
\* writeFileSync has opened the file at p and has not yet returned.
Writing(p) == pc = "write_data" /\ wr.path = p

ReaderRead ==
  /\ \E p \in Paths :
       obs' = [seen |-> TRUE, path |-> p, file |-> files[p],
               writing |-> Writing(p),
               before |-> IF Writing(p) THEN wr.before ELSE files[p],
               after |-> IF Writing(p) THEN File(wr.data) ELSE files[p]]
  /\ UNCHANGED <<entry, files0, classified, cmd, up, user, pc, ret, ig, igOuter, attempts, err, calls, result,
                 reused, validated, files, valid, wr, postFlow, runs, prev>>

(***************************************************************************)
(* Specifications.                                                         *)
(***************************************************************************)
AcquisitionSteps ==
  \/ writeFileSync_open
  \/ writeFileSync_data
  \/ ReturnOk
  \/ loginSingleAccount
  \/ tryRestoreSession
  \/ tryRestoreSession_probe
  \/ preLoginFlow
  \/ performLoginWithChallenges
  \/ handleTwoFactor
  \/ handleTwoFactor_submit
  \/ handleCheckpoint
  \/ handleCheckpoint_submit
  \/ performLoginWithChallenges_probe
  \/ performLoginWithChallenges_relogin
  \/ saveSession
  \/ postLoginFlow

AccountSteps == Expire \/ AcquisitionSteps

ScriptSteps ==
  \/ login
  \/ login_probe
  \/ login_attempt
  \/ login_getChallenge
  \/ handleCheckpointA_select
  \/ handleCheckpointA_code
  \/ handleCheckpointB_auto
  \/ handleCheckpointB_code
  \/ login_twoFactor
  \/ login_sleep
  \/ login_save
  \/ main
  \/ main_preLoginFlow
  \/ main_login
  \/ main_save
  \/ uploadReel
  \/ uploadReel_publish
  \/ uploadJs
  \/ uploadJs_probe
  \/ uploadJs_upload
  \/ createIgFromSession
  \/ createIgFromSession_load
  \/ createIgFromSession_probe
  \/ createIgFromSession_reload
  \/ createIgFromSession_reprobe

\* One run of any entry point, from any state of the session files.
Next == Start \/ AccountSteps \/ ScriptSteps

Spec == Init /\ [][Next]_vars

\* The login command over several accounts, one acquisition after another.
NextAccounts == StartAccount \/ NextAccount \/ AccountSteps

SpecAccounts == Init /\ [][NextAccounts]_vars

(***************************************************************************)
(* One session acquisition run to its end: login() in either variant,      *)
(* loginSingleAccount or createIgFromSession.  Every external call and     *)
(* every prompt returns, so a step of the acquisition that can be taken is *)
(* taken in the end.                                                       *)
(***************************************************************************)
Acquisitions == {"loginA", "loginB", "loginSingleAccount", "createIgFromSession"}

StartAcquisition ==
  /\ pc = "idle"
  /\ \E e \in Acquisitions : \E u \in UsersOf(e) : Begin(e, u)
  /\ UNCHANGED prev

RetrySteps ==
  \/ login
  \/ login_probe
  \/ login_attempt
  \/ login_getChallenge
  \/ handleCheckpointA_select
  \/ handleCheckpointA_code
  \/ handleCheckpointB_auto
  \/ handleCheckpointB_code
  \/ login_twoFactor
  \/ login_sleep
  \/ login_save

CreateSteps ==
  \/ createIgFromSession
  \/ createIgFromSession_load
  \/ createIgFromSession_probe
  \/ createIgFromSession_reload
  \/ createIgFromSession_reprobe

NextLive == StartAcquisition \/ AcquisitionSteps \/ RetrySteps \/ CreateSteps

SpecLive == Init /\ [][NextLive]_vars /\ WF_vars(NextLive)

\* One acquisition by loginSingleAccount beside a concurrent reader of the
\* session files.
NextReader == StartAccount \/ AccountSteps \/ ReaderRead

SpecReader == Init /\ [][NextReader]_vars

(***************************************************************************)
(* loginAllAccounts(): the login command over the target usernames.        *)
(***************************************************************************)
\* The values config.upload.min_delay_between_account_logins_ms may hold; 0
\* stands for a value that is missing, zero or not a number.
ConfiguredDelays == {0, 1000}

\* Number(config.upload.min_delay_between_account_logins_ms) || 2500
minDelay(configured) == IF configured = 0 THEN MinDelayDefaultMs ELSE configured

\* resolveTargetUsernames(config): the command line, or the configuration.
TargetLists == UNION {[1..n -> Usernames] : n \in 0..MaxAccounts}

Event(ev, i, ok, ms) == [ev |-> ev, i |-> i, ok |-> ok, ms |-> ms]

\* loadConfig, resolveTargetUsernames, results = [], i = 0.
loginAllAccounts ==
  /\ pc = "idle"
  /\ ~cmd.active
  /\ \E usernames \in TargetLists : \E configured \in ConfiguredDelays :
       cmd' = [active |-> TRUE, usernames |-> usernames, i |-> 1,
               delayMs |-> minDelay(configured), results |-> <<>>,
               events |-> <<>>, exitCode |-> 0]
  /\ entry' = "loginAllAccounts"
  /\ pc' = "A_loop"
  /\ UNCHANGED <<files0, classified, up, user, ret, ig, igOuter, attempts, err, calls,
                 result, reused, validated, files, valid, wr, postFlow, obs, runs, prev>>

\* The head of the for loop: i < usernames.length.
loginAllAccounts_loop ==
  /\ pc = "A_loop"
  /\ IF cmd.i <= Len(cmd.usernames)
     THEN /\ pc' = "A_call"
          /\ cmd' = [cmd EXCEPT !.events = Append(@, Event("start", cmd.i, FALSE, 0))]
     ELSE /\ pc' = "A_summary"
          /\ UNCHANGED cmd
  /\ UNCHANGED <<entry, files0, classified, up, user, ret, ig, igOuter, attempts, err, calls,
                 result, reused, validated, files, valid, wr, postFlow, obs, runs, prev>>

\* await loginSingleAccount({ username, password, config })
loginAllAccounts_call ==
  /\ pc = "A_call"
  /\ Begin("loginSingleAccount", cmd.usernames[cmd.i])
  /\ UNCHANGED prev

\* results.push of the try block or of the catch block, then the test
\* i < usernames.length - 1 before the wait.
loginAllAccounts_push ==
  /\ cmd.active
  /\ pc = "done"
  /\ cmd' = [cmd EXCEPT
               !.results = Append(@, [username |-> user, ok |-> (result = "ok"),
                                      reusedSession |-> (result = "ok" /\ reused)]),
               !.events = Append(@, Event("end", cmd.i, result = "ok", 0)),
               !.i = IF cmd.i < Len(cmd.usernames) THEN @ ELSE @ + 1]
  /\ pc' = IF cmd.i < Len(cmd.usernames) THEN "A_sleep" ELSE "A_loop"
  /\ UNCHANGED <<entry, files0, classified, up, user, ret, ig, igOuter, attempts, err, calls,
                 result, reused, validated, files, valid, wr, postFlow, obs, runs, prev>>

\* A command that goes on to the next account without waiting.
loginAllAccounts_nosleep ==
  /\ pc = "A_sleep"
  /\ cmd' = [cmd EXCEPT !.i = @ + 1]
  /\ pc' = "A_loop"
  /\ UNCHANGED <<entry, files0, classified, up, user, ret, ig, igOuter, attempts, err, calls,
                 result, reused, validated, files, valid, wr, postFlow, obs, runs, prev>>

\* await sleep(delayMs), then i += 1.
loginAllAccounts_sleep ==
  /\ pc = "A_sleep"
  /\ cmd' = [cmd EXCEPT !.events = Append(@, Event("sleep", cmd.i, FALSE, cmd.delayMs)),
                        !.i = @ + 1]
  /\ pc' = "A_loop"
  /\ UNCHANGED <<entry, files0, classified, up, user, ret, ig, igOuter, attempts, err, calls,
                 result, reused, validated, files, valid, wr, postFlow, obs, runs, prev>>

failCount(results) == Cardinality({k \in 1..Len(results) : ~results[k].ok})

\* A summary that always reports success.
loginAllAccounts_exitZero ==
  /\ pc = "A_summary"
  /\ pc' = "exit"
  /\ UNCHANGED <<entry, files0, classified, cmd, up, user, ret, ig, igOuter, attempts, err,
                 calls, result, reused, validated, files, valid, wr, postFlow, obs, runs,
                 prev>>

\* The summary: process.exitCode = 1 when an account failed.
loginAllAccounts_summary ==
  /\ pc = "A_summary"
  /\ cmd' = [cmd EXCEPT !.exitCode = IF failCount(cmd.results) > 0 THEN 1 ELSE @]
  /\ pc' = "exit"
  /\ UNCHANGED <<entry, files0, classified, up, user, ret, ig, igOuter, attempts, err, calls,
                 result, reused, validated, files, valid, wr, postFlow, obs, runs, prev>>

NextLoginAll ==
  \/ loginAllAccounts
  \/ loginAllAccounts_loop
  \/ loginAllAccounts_call
  \/ loginAllAccounts_push
  \/ loginAllAccounts_sleep
  \/ loginAllAccounts_summary
  \/ AccountSteps

\* The command reads and writes only the files of the sessions directory.
InitLoginAll == Init /\ files[SESSION_FILE] = NoFile

SpecLoginAll == InitLoginAll /\ [][NextLoginAll]_vars

(***************************************************************************)
(* upload-video.js: the objects of the bucket and the choice of the next   *)
(* video.  A key is a sequence of morphemes that ends with its extension;  *)
(* LastModified is 0 where the listing gives none.                         *)
(***************************************************************************)
ObjectKeys == {<<"a", ".mp4">>, <<"b", ".MOV">>, <<"c", ".mp4">>, <<"notes", ".txt">>}
Times == 0..2
Items == [Key : ObjectKeys, LastModified : Times]

endsWith(text, suffix) ==
  /\ Len(text) >= Len(suffix)
  /\ SubSeq(text, Len(text) - Len(suffix) + 1, Len(text)) = suffix

\* A test of the extension that does not lower the case of the key.
isVideoObject_caseSensitive(item) ==
  \/ endsWith(item.Key, <<".mp4">>)
  \/ endsWith(item.Key, <<".mov">>)
  \/ endsWith(item.Key, <<".m4v">>)
  \/ endsWith(item.Key, <<".webm">>)

isVideoObject(item) ==
  LET lowered == toLowerCase(item.Key)
  IN \/ endsWith(lowered, <<".mp4">>)
     \/ endsWith(lowered, <<".mov">>)
     \/ endsWith(lowered, <<".m4v">>)
     \/ endsWith(lowered, <<".webm">>)

\* The loop over response.Contents that pushes the video objects.
RECURSIVE pushVideos(_, _)
pushVideos(items, contents) ==
  IF contents = <<>> THEN items
  ELSE pushVideos(IF isVideoObject(Head(contents)) THEN Append(items, Head(contents))
                  ELSE items,
                  Tail(contents))

\* new Date(x.LastModified).getTime(), or 0
getTime(item) == item.LastModified

\* The place of one more item in a list sorted by aTime - bTime: behind the
\* items that are not later than it (Array.prototype.sort is stable).
RECURSIVE insertSorted(_, _)
insertSorted(sorted, item) ==
  IF sorted = <<>> THEN <<item>>
  ELSE IF getTime(Head(sorted)) - getTime(item) <= 0
       THEN <<Head(sorted)>> \o insertSorted(Tail(sorted), item)
       ELSE <<item>> \o sorted

RECURSIVE sort(_)
sort(items) ==
  IF items = <<>> THEN <<>>
  ELSE insertSorted(sort(SubSeq(items, 1, Len(items) - 1)), items[Len(items)])

\* uploadedSet.has(key), for a Set kept as the sequence of its insertions.
has(set, key) == \E i \in 1..Len(set) : set[i] = key

\* set.add(key)
add(set, key) == IF has(set, key) THEN set ELSE Append(set, key)

\* new Set(array)
RECURSIVE newSet(_)
newSet(array) ==
  IF array = <<>> THEN <<>>
  ELSE add(newSet(SubSeq(array, 1, Len(array) - 1)), array[Len(array)])

\* A choice that takes the last candidate that was not uploaded.
RECURSIVE pickNextUnpostedVideo_last(_, _)
pickNextUnpostedVideo_last(videoItems, uploadedSet) ==
  IF videoItems = <<>> THEN NoItem
  ELSE IF ~has(uploadedSet, videoItems[Len(videoItems)].Key)
       THEN videoItems[Len(videoItems)]
       ELSE pickNextUnpostedVideo_last(SubSeq(videoItems, 1, Len(videoItems) - 1),
                                       uploadedSet)

RECURSIVE pickNextUnpostedVideo(_, _)
pickNextUnpostedVideo(videoItems, uploadedSet) ==
  IF videoItems = <<>> THEN NoItem
  ELSE IF ~has(uploadedSet, Head(videoItems).Key)
       THEN Head(videoItems)
       ELSE pickNextUnpostedVideo(Tail(videoItems), uploadedSet)

\* The listings of a bucket: objects with distinct keys.
Listings ==
  UNION {{l \in [1..n -> Items] : \A i, j \in 1..n : l[i].Key = l[j].Key => i = j} :
         n \in 0..MaxVideos}

\* The sets of uploaded keys, in the order of a state file.
KeyLists == {<<>>, <<<<"a", ".mp4">>>>, <<<<"b", ".MOV">>>>,
             <<<<"a", ".mp4">>, <<"b", ".MOV">>>>,
             <<<<"b", ".MOV">>, <<"a", ".mp4">>, <<"c", ".mp4">>>>,
             <<<<"old", ".mp4">>>>}

\* A candidate list as listAllVideosFromR2 returns it and a set of uploaded
\* keys as run() builds it.
InitPick ==
  /\ entry = "idle"
  /\ user = NoUser
  /\ pc = "P_start"
  /\ ret = "none"
  /\ ig = IgApiClient
  /\ igOuter = IgApiClient
  /\ attempts = 0
  /\ err = NoError
  /\ calls = <<>>
  /\ result = "none"
  /\ reused = FALSE
  /\ validated = [inner |-> FALSE, outer |-> FALSE]
  /\ files = [q \in Paths |-> NoFile]
  /\ files0 = files
  /\ valid = {}
  /\ wr = NoWrite
  /\ postFlow = "none"
  /\ obs = NoObs
  /\ runs = 0
  /\ prev = NoPrev
  /\ classified = NoClass
  /\ cmd = NoCmd
  /\ \E listing \in Listings : \E keys \in KeyLists :
       up = [NoUp EXCEPT !.items = listing,
                         !.videos = sort(pushVideos(<<>>, listing)),
                         !.uploadedSet = newSet(keys)]

\* const nextVideo = pickNextUnpostedVideo(videos, uploadedSet)
pickNextUnpostedVideo_call ==
  /\ pc = "P_start"
  /\ up' = [up EXCEPT !.nextVideo = pickNextUnpostedVideo(up.videos, up.uploadedSet)]
  /\ entry' = "pickNextUnpostedVideo"
  /\ pc' = "done"
  /\ UNCHANGED <<files0, classified, cmd, user, ret, ig, igOuter, attempts, err, calls,
                 result, reused, validated, files, valid, wr, postFlow, obs, runs, prev>>

NextPick == pickNextUnpostedVideo_call

SpecPick == InitPick /\ [][NextPick]_vars

(***************************************************************************)
(* upload-video.js: run(), one upload run of the script for a username,    *)
(* and the handler of its rejection.  up.log names the calls of the run,   *)
(* "failed" after one that threw; up.exit is the exit status, -1 while     *)
(* the run goes on; up.published keeps, over all the runs, the keys whose  *)
(* publish call returned.                                                  *)
(***************************************************************************)
\* process.argv[2] || config.instagram.usernames[0]
UploadUsername == "demo"

\* JSON.stringify(newState, null, 2) as saveJson writes it.
StateFile(keys, last) ==
  [exists |-> TRUE, kind |-> "object", hasKeys |-> TRUE, uploaded_keys |-> keys,
   last_uploaded |-> last]

\* A state file that is no JSON text: the file just opened by writeFileSync.
TruncatedStateFile ==
  [exists |-> TRUE, kind |-> "malformed", hasKeys |-> FALSE, uploaded_keys |-> <<>>,
   last_uploaded |-> <<>>]

\* An object without uploaded_keys.
BareStateFile ==
  [exists |-> TRUE, kind |-> "object", hasKeys |-> FALSE, uploaded_keys |-> <<>>,
   last_uploaded |-> <<>>]

InitStateFiles ==
  {NoStateFile, TruncatedStateFile, BareStateFile,
   StateFile(<<<<"a", ".mp4">>>>, <<"a", ".mp4">>)}

\* readJsonIfExists throws where JSON.parse does.
readJsonIfExistsThrows(file) == file.exists /\ file.kind = "malformed"

\* state.uploaded_keys || [] of the state read, or of the fallback.
uploaded_keys(file) ==
  IF file.exists /\ file.hasKeys THEN file.uploaded_keys ELSE <<>>

\* A state that keeps only the key just uploaded.
newState_onlyLast(uploadedSet, key) == StateFile(<<key>>, key)

\* newState = { username, uploaded_keys: Array.from(uploadedSet), last_uploaded }
newState(uploadedSet, key) == StateFile(uploadedSet, key)

\* The pages of response.Contents that the listing of a bucket returns.
Item(name, ext, time) == [Key |-> <<name, ext>>, LastModified |-> time]

Buckets ==
  {<< <<>> >>,
   << <<Item("notes", ".txt", 1)>> >>,
   << <<Item("a", ".mp4", 1)>> >>,
   << <<Item("b", ".MOV", 2), Item("notes", ".txt", 1)>>, <<Item("a", ".mp4", 1)>> >>}

\* The three payloads of publishAsReel, in the order of its attempts.
Payloads == <<"isClip", "reel", "plain">>

\* The run ends: return of run(), or process.exit(1) of the handler.
Exit(code, names) ==
  up' = [up EXCEPT !.exit = code, !.log = @ \o names]

\* run() up to its first await, in a process of its own: the configuration,
\* the state file, the set of uploaded keys.  The bucket is one of buckets,
\* and no more than maxRuns runs are started.
runOver(buckets, maxRuns) ==
  /\ pc \in {"idle", "exit"}
  /\ ~cmd.active
  /\ up.n < maxRuns
  /\ \E config \in {"ok", "nousername", "r2incomplete"} : \E bucket \in buckets :
       LET started == [up EXCEPT !.active = TRUE, !.n = @ + 1, !.file0 = up.file,
                                 !.pages = bucket, !.items = <<>>, !.videos = <<>>,
                                 !.uploadedSet = <<>>, !.nextVideo = NoItem,
                                 !.attempt = 0, !.lastError = "none", !.log = <<>>,
                                 !.exit = -1]
       IN IF config # "ok"
          THEN /\ up' = [started EXCEPT !.exit = 1, !.log = <<"config", "failed">>,
                                       !.pages = <<>>]
               /\ pc' = "exit"
          ELSE IF readJsonIfExistsThrows(up.file)
          THEN /\ up' = [started EXCEPT !.exit = 1, !.log = <<"readState", "failed">>,
                                       !.pages = <<>>]
               /\ pc' = "exit"
          ELSE /\ up' = [started EXCEPT !.uploadedSet = newSet(uploaded_keys(up.file)),
                                       !.log = <<"readState">>]
               /\ pc' = "R_list"
  /\ entry' = "run"
  /\ user' = UploadUsername
  /\ ret' = "none"
  /\ ig' = IgApiClient
  /\ igOuter' = IgApiClient
  /\ attempts' = 0
  /\ err' = NoError
  /\ calls' = <<>>
  /\ result' = "none"
  /\ reused' = FALSE
  /\ validated' = [inner |-> FALSE, outer |-> FALSE]
  /\ valid' = valid \cap FileTokens
  /\ postFlow' = "none"
  /\ files0' = files
  /\ UNCHANGED <<classified, cmd, files, wr, obs, runs, prev>>

\* A run over whatever the bucket holds when it is started.
run == runOver(Buckets, MaxUploadRuns)

\* One page of listAllVideosFromR2; after the last one the sort, the test
\* of an empty list and the choice of the next video.
run_list ==
  /\ pc = "R_list"
  /\ \/ /\ Exit(1, <<"list", "failed">>)
        /\ pc' = "exit"
     \/ LET items == pushVideos(up.items, Head(up.pages))
            videos == sort(items)
            nextVideo == pickNextUnpostedVideo(videos, up.uploadedSet)
        IN IF Len(up.pages) > 1
           THEN /\ up' = [up EXCEPT !.items = items, !.pages = Tail(@),
                                    !.log = Append(@, "list")]
                /\ pc' = "R_list"
           ELSE IF Len(videos) = 0
           THEN /\ up' = [up EXCEPT !.items = items, !.pages = <<>>, !.videos = videos,
                                    !.log = Append(@, "list"), !.exit = 0]
                /\ pc' = "exit"
           ELSE IF nextVideo = NoItem
           THEN /\ up' = [up EXCEPT !.items = items, !.pages = <<>>, !.videos = videos,
                                    !.log = Append(@, "list"), !.exit = 0]
                /\ pc' = "exit"
           ELSE /\ up' = [up EXCEPT !.items = <<>>, !.pages = <<>>, !.videos = videos,
                                    !.nextVideo = nextVideo,
                                    !.log = @ \o <<"list", "createIgFromSession">>]
                /\ pc' = "R_session"
  /\ UNCHANGED <<entry, files0, classified, cmd, user, ret, ig, igOuter, attempts, err,
                 calls, result, reused, validated, files, valid, wr, postFlow, obs, runs,
                 prev>>

\* const ig = await createIgFromSession(config, username)
run_createIgFromSession ==
  /\ pc = "R_session"
  /\ Begin("createIgFromSession", UploadUsername)
  /\ UNCHANGED prev

\* A run that goes on as if it had nothing to do when no session is there.
run_session_swallow ==
  /\ up.active
  /\ up.exit = -1
  /\ pc = "done"
  /\ IF result = "ok"
     THEN pc' = "R_download" /\ UNCHANGED up
     ELSE pc' = "exit" /\ Exit(0, <<"failed">>)
  /\ UNCHANGED <<entry, files0, classified, cmd, user, ret, ig, igOuter, attempts, err,
                 calls, result, reused, validated, files, valid, wr, postFlow, obs, runs,
                 prev>>

\* createIgFromSession returns the client, or throws out of run().
run_session ==
  /\ up.active
  /\ up.exit = -1
  /\ pc = "done"
  /\ IF result = "ok"
     THEN pc' = "R_download" /\ UNCHANGED up
     ELSE pc' = "exit" /\ Exit(1, <<"failed">>)
  /\ UNCHANGED <<entry, files0, classified, cmd, user, ret, ig, igOuter, attempts, err,
                 calls, result, reused, validated, files, valid, wr, postFlow, obs, runs,
                 prev>>

\* A run that records the key although the download failed.
downloadR2ObjectToBuffer_recorded ==
  /\ pc = "R_download"
  /\ \/ /\ up' = [up EXCEPT !.log = Append(@, "download"), !.attempt = 1]
        /\ pc' = "R_publish"
     \/ /\ up' = [up EXCEPT !.log = @ \o <<"download", "failed">>,
                            !.uploadedSet = add(@, up.nextVideo.Key)]
        /\ pc' = "R_save"
  /\ UNCHANGED <<entry, files0, classified, cmd, user, ret, ig, igOuter, attempts, err,
                 calls, result, reused, validated, files, valid, wr, postFlow, obs, runs,
                 prev>>

\* downloadR2ObjectToBuffer: the request may throw, the body may be empty.
downloadR2ObjectToBuffer ==
  /\ pc = "R_download"
  /\ \/ /\ up' = [up EXCEPT !.log = Append(@, "download"), !.attempt = 1]
        /\ pc' = "R_publish"
     \/ /\ Exit(1, <<"download", "failed">>)
        /\ pc' = "exit"
  /\ UNCHANGED <<entry, files0, classified, cmd, user, ret, ig, igOuter, attempts, err,
                 calls, result, reused, validated, files, valid, wr, postFlow, obs, runs,
                 prev>>

\* A publishAsReel that gives up at the first failure.
publishAsReel_noFallback ==
  /\ pc = "R_publish"
  /\ LET name == Payloads[up.attempt]
     IN \/ /\ up' = [up EXCEPT !.log = Append(@, name),
                               !.uploadedSet = add(@, up.nextVideo.Key),
                               !.published = Append(@, up.nextVideo.Key)]
           /\ pc' = "R_save"
        \/ /\ up' = [up EXCEPT !.log = @ \o <<name, "failed">>, !.lastError = name,
                               !.exit = 1]
           /\ pc' = "exit"
  /\ UNCHANGED <<entry, files0, classified, cmd, user, ret, ig, igOuter, attempts, err,
                 calls, result, reused, validated, files, valid, wr, postFlow, obs, runs,
                 prev>>

\* One attempt of publishAsReel: ig.publish.video(payload).  Its success
\* returns into run(), which adds the key to the set; its failure is kept as
\* lastError and, after the last payload, thrown.
publishAsReel ==
  /\ pc = "R_publish"
  /\ LET name == Payloads[up.attempt]
     IN \/ /\ up' = [up EXCEPT !.log = Append(@, name),
                               !.uploadedSet = add(@, up.nextVideo.Key),
                               !.published = Append(@, up.nextVideo.Key)]
           /\ pc' = "R_save"
        \/ IF up.attempt < Len(Payloads)
           THEN /\ up' = [up EXCEPT !.log = @ \o <<name, "failed">>, !.lastError = name,
                                    !.attempt = @ + 1]
                /\ pc' = "R_publish"
           ELSE /\ up' = [up EXCEPT !.log = @ \o <<name, "failed">>, !.lastError = name,
                                    !.exit = 1]
                /\ pc' = "exit"
  /\ UNCHANGED <<entry, files0, classified, cmd, user, ret, ig, igOuter, attempts, err,
                 calls, result, reused, validated, files, valid, wr, postFlow, obs, runs,
                 prev>>

\* saveJson(statePath, newState): writeFileSync opens the file, which
\* truncates it.
saveJson_open ==
  /\ pc = "R_save"
  /\ up' = [up EXCEPT !.file = TruncatedStateFile]
  /\ pc' = "R_save_data"
  /\ UNCHANGED <<entry, files0, classified, cmd, user, ret, ig, igOuter, attempts, err,
                 calls, result, reused, validated, files, valid, wr, postFlow, obs, runs,
                 prev>>

\* A save that leaves the state file as the run found it.
saveJson_data_lost ==
  /\ pc = "R_save_data"
  /\ up' = [up EXCEPT !.file = up.file0, !.log = Append(@, "saveJson"), !.exit = 0]
  /\ pc' = "exit"
  /\ UNCHANGED <<entry, files0, classified, cmd, user, ret, ig, igOuter, attempts, err,
                 calls, result, reused, validated, files, valid, wr, postFlow, obs, runs,
                 prev>>

\* The text of the new state is written, and run() returns.
saveJson_data ==
  /\ pc = "R_save_data"
  /\ up' = [up EXCEPT !.file = newState(up.uploadedSet, up.nextVideo.Key),
                      !.log = Append(@, "saveJson"), !.exit = 0]
  /\ pc' = "exit"
  /\ UNCHANGED <<entry, files0, classified, cmd, user, ret, ig, igOuter, attempts, err,
                 calls, result, reused, validated, files, valid, wr, postFlow, obs, runs,
                 prev>>

RunSteps ==
  \/ run
  \/ run_list
  \/ run_createIgFromSession
  \/ run_session
  \/ downloadR2ObjectToBuffer
  \/ publishAsReel
  \/ saveJson_open
  \/ saveJson_data
  \/ createIgFromSession
  \/ createIgFromSession_load
  \/ createIgFromSession_probe
  \/ createIgFromSession_reload
  \/ createIgFromSession_reprobe

\* The probe of a session may fail at any run, whether the service has
\* ended the session or not.
NextUpload == RunSteps \/ AcquisitionSteps

\* The session file of the username as a login left it, and any state file.
InitUpload ==
  /\ entry = "idle"
  /\ user = NoUser
  /\ pc = "idle"
  /\ ret = "none"
  /\ ig = IgApiClient
  /\ igOuter = IgApiClient
  /\ attempts = 0
  /\ err = NoError
  /\ calls = <<>>
  /\ result = "none"
  /\ reused = FALSE
  /\ validated = [inner |-> FALSE, outer |-> FALSE]
  /\ \E f \in {NoFile, File(saveSessionText(SavedClient(UploadUsername, 1)))} :
       files = [q \in Paths |-> IF q = getSessionFilePath(UploadUsername) THEN f ELSE NoFile]
  /\ files0 = files
  /\ valid = UNION {TextTokens(files[p].text) : p \in Paths}
  /\ wr = NoWrite
  /\ postFlow = "none"
  /\ obs = NoObs
  /\ runs = 0
  /\ prev = NoPrev
  /\ classified = NoClass
  /\ cmd = NoCmd
  /\ \E f \in InitStateFiles : up = [NoUp EXCEPT !.file = f, !.file0 = f]

SpecUpload == InitUpload /\ [][NextUpload]_vars

(***************************************************************************)
(* A series of upload runs of one username over a bucket that does not     *)
(* change: up.bucket is what every run lists, the upload state starts      *)
(* empty, and one run more is started than the bucket can hold videos.     *)
(***************************************************************************)
run_series == runOver({up.bucket}, MaxUploadRuns + 1)

SeriesSteps ==
  \/ run_series
  \/ run_list
  \/ run_createIgFromSession
  \/ run_session
  \/ downloadR2ObjectToBuffer
  \/ publishAsReel
  \/ saveJson_open
  \/ saveJson_data
  \/ createIgFromSession
  \/ createIgFromSession_load
  \/ createIgFromSession_probe
  \/ createIgFromSession_reload
  \/ createIgFromSession_reprobe

NextSeries == SeriesSteps \/ AcquisitionSteps

InitSeries ==
  /\ entry = "idle"
  /\ user = NoUser
  /\ pc = "idle"
  /\ ret = "none"
  /\ ig = IgApiClient
  /\ igOuter = IgApiClient
  /\ attempts = 0
  /\ err = NoError
  /\ calls = <<>>
  /\ result = "none"
  /\ reused = FALSE
  /\ validated = [inner |-> FALSE, outer |-> FALSE]
  /\ files = [q \in Paths |->
                IF q = getSessionFilePath(UploadUsername)
                THEN File(saveSessionText(SavedClient(UploadUsername, 1))) ELSE NoFile]
  /\ files0 = files
  /\ valid = UNION {TextTokens(files[p].text) : p \in Paths}
  /\ wr = NoWrite
  /\ postFlow = "none"
  /\ obs = NoObs
  /\ runs = 0
  /\ prev = NoPrev
  /\ classified = NoClass
  /\ cmd = NoCmd
  /\ \E f \in {NoStateFile, BareStateFile} : \E bucket \in Buckets :
       up = [NoUp EXCEPT !.file = f, !.file0 = f, !.bucket = bucket]

SpecSeries == InitSeries /\ [][NextSeries]_vars

(***************************************************************************)
(* listAllVideosFromR2 applied to any listing: the objects of a bucket,    *)
(* in any order, returned in one page or in three.                         *)
(***************************************************************************)
ListedObjects ==
  {[Key |-> <<"a", ".mp4">>, LastModified |-> 1],
   [Key |-> <<"b", ".MOV">>, LastModified |-> 2],
   [Key |-> <<"d", ".webm">>, LastModified |-> 0],
   [Key |-> <<"e", ".m4v">>, LastModified |-> 1],
   [Key |-> <<"notes", ".txt">>, LastModified |-> 1],
   [Key |-> <<"f", ".mp4", ".bak">>, LastModified |-> 2]}

ObjectLists ==
  UNION {{l \in [1..n -> ListedObjects] : \A i, j \in 1..n : l[i] = l[j] => i = j} :
         n \in 0..MaxVideos}

\* The pages the service cuts a listing into; IsTruncated is true on every
\* page but the last.
PageSplits(l) ==
  {<<l>>} \cup
  {<<SubSeq(l, 1, i), SubSeq(l, i + 1, j), SubSeq(l, j + 1, Len(l))>> :
     <<i, j>> \in {c \in (0..Len(l)) \X (0..Len(l)) : c[1] <= c[2]}}

InitList ==
  /\ entry = "idle"
  /\ user = NoUser
  /\ pc = "V_list"
  /\ ret = "none"
  /\ ig = IgApiClient
  /\ igOuter = IgApiClient
  /\ attempts = 0
  /\ err = NoError
  /\ calls = <<>>
  /\ result = "none"
  /\ reused = FALSE
  /\ validated = [inner |-> FALSE, outer |-> FALSE]
  /\ files = [q \in Paths |-> NoFile]
  /\ files0 = files
  /\ valid = {}
  /\ wr = NoWrite
  /\ postFlow = "none"
  /\ obs = NoObs
  /\ runs = 0
  /\ prev = NoPrev
  /\ classified = NoClass
  /\ cmd = NoCmd
  /\ \E l \in ObjectLists : \E pages \in PageSplits(l) :
       up = [NoUp EXCEPT !.bucket = pages, !.pages = pages]

\* One turn of the do/while loop: a page is requested with the continuation
\* token and its video objects are pushed; after the page that is not
\* truncated the items are sorted and returned.
listAllVideosFromR2 ==
  /\ pc = "V_list"
  /\ LET items == pushVideos(up.items, Head(up.pages))
     IN IF Len(up.pages) > 1
        THEN /\ up' = [up EXCEPT !.items = items, !.pages = Tail(@),
                                 !.log = Append(@, "list")]
             /\ pc' = "V_list"
        ELSE /\ up' = [up EXCEPT !.items = <<>>, !.pages = <<>>, !.videos = sort(items),
                                 !.log = Append(@, "list")]
             /\ pc' = "done"
  /\ entry' = "listAllVideosFromR2"
  /\ UNCHANGED <<files0, classified, cmd, user, ret, ig, igOuter, attempts, err, calls,
                 result, reused, validated, files, valid, wr, postFlow, obs, runs, prev>>

NextList == listAllVideosFromR2

SpecList == InitList /\ [][NextList]_vars

(***************************************************************************)
(* Two runs of upload-video.js for one username at the same time: two      *)
(* processes, each with its own uploadedSet and nextVideo, over the one    *)
(* state file up.file and the one bucket up.bucket.  up.procs[p] is the    *)
(* process p: its place in run(), what it read and chose, its exit status, *)
(* the key its publish call returned for, and whether the other process    *)
(* was running when it started.  Nothing in run() locks the state file.    *)
(***************************************************************************)
Processes == {1, 2}

NoProc == [pc |-> "idle", uploadedSet |-> <<>>, nextVideo |-> NoItem, exit |-> -1,
           published |-> <<>>, overlapped |-> FALSE]

Other(p) == CHOOSE q \in Processes : q # p

\* The do/while loop of listAllVideosFromR2 over all the pages.
RECURSIVE pushPages(_, _)
pushPages(items, pages) ==
  IF pages = <<>> THEN items
  ELSE pushPages(pushVideos(items, Head(pages)), Tail(pages))

InitOverlap ==
  /\ entry = "run"
  /\ user = UploadUsername
  /\ pc = "overlap"
  /\ ret = "none"
  /\ ig = IgApiClient
  /\ igOuter = IgApiClient
  /\ attempts = 0
  /\ err = NoError
  /\ calls = <<>>
  /\ result = "none"
  /\ reused = FALSE
  /\ validated = [inner |-> FALSE, outer |-> FALSE]
  /\ files = [q \in Paths |-> NoFile]
  /\ files0 = files
  /\ valid = {}
  /\ wr = NoWrite
  /\ postFlow = "none"
  /\ obs = NoObs
  /\ runs = 0
  /\ prev = NoPrev
  /\ classified = NoClass
  /\ cmd = NoCmd
  /\ \E f \in InitStateFiles : \E bucket \in Buckets :
       up = [NoUp EXCEPT !.file = f, !.file0 = f, !.bucket = bucket,
                         !.procs = [p \in Processes |-> NoProc]]

\* The process p goes to the place l of run().
Goto(p, l) == up' = [up EXCEPT !.procs[p].pc = l]

\* The process p ends with the status code.
ExitProcess(p, code) == up' = [up EXCEPT !.procs[p].pc = "exit", !.procs[p].exit = code]

\* const state = readJsonIfExists(statePath, ...); const uploadedSet = new Set(...)
overlap_readState(p) ==
  /\ up.procs[p].pc = "idle"
  /\ LET overlapped == up.procs[Other(p)].pc \notin {"idle", "exit"}
     IN IF readJsonIfExistsThrows(up.file)
        THEN up' = [up EXCEPT !.procs[p].pc = "exit", !.procs[p].exit = 1,
                              !.procs[p].overlapped = overlapped]
        ELSE up' = [up EXCEPT !.procs[p].pc = "P_list",
                              !.procs[p].uploadedSet = newSet(uploaded_keys(up.file)),
                              !.procs[p].overlapped = overlapped]

\* const videos = await listAllVideosFromR2(...); the test of an empty list;
\* const nextVideo = pickNextUnpostedVideo(videos, uploadedSet)
overlap_pick(p) ==
  /\ up.procs[p].pc = "P_list"
  /\ \/ ExitProcess(p, 1)
     \/ LET videos == sort(pushPages(<<>>, up.bucket))
            nextVideo == pickNextUnpostedVideo(videos, up.procs[p].uploadedSet)
        IN IF Len(videos) = 0 \/ nextVideo = NoItem
           THEN ExitProcess(p, 0)
           ELSE up' = [up EXCEPT !.procs[p].pc = "P_session",
                                 !.procs[p].nextVideo = nextVideo]

\* const ig = await createIgFromSession(config, username): a client, or an
\* error thrown out of run().
overlap_session(p) ==
  /\ up.procs[p].pc = "P_session"
  /\ \/ Goto(p, "P_download")
     \/ ExitProcess(p, 1)

\* const videoBuffer = await downloadR2ObjectToBuffer(...)
overlap_download(p) ==
  /\ up.procs[p].pc = "P_download"
  /\ \/ Goto(p, "P_publish")
     \/ ExitProcess(p, 1)

\* await publishAsReel(...): one of the payloads is accepted, or the last
\* error is thrown; then uploadedSet.add(nextVideo.Key).
overlap_publish(p) ==
  /\ up.procs[p].pc = "P_publish"
  /\ \/ up' = [up EXCEPT !.procs[p].pc = "P_save",
                         !.procs[p].uploadedSet = add(@, up.procs[p].nextVideo.Key),
                         !.procs[p].published = up.procs[p].nextVideo.Key,
                         !.published = Append(@, up.procs[p].nextVideo.Key)]
     \/ ExitProcess(p, 1)

\* saveJson(statePath, newState): writeFileSync opens the file, which
\* truncates it.
overlap_saveOpen(p) ==
  /\ up.procs[p].pc = "P_save"
  /\ up' = [up EXCEPT !.procs[p].pc = "P_save_data", !.file = TruncatedStateFile]

\* The text of the new state of the process is written, and run() returns.
overlap_saveData(p) ==
  /\ up.procs[p].pc = "P_save_data"
  /\ up' = [up EXCEPT !.procs[p].pc = "exit", !.procs[p].exit = 0,
                      !.file = newState(up.procs[p].uploadedSet,
                                        up.procs[p].nextVideo.Key)]

run_readState ==
  /\ \E p \in Processes : overlap_readState(p)
  /\ UNCHANGED <<entry, files0, classified, cmd, user, pc, ret, ig, igOuter, attempts, err,
                 calls, result, reused, validated, files, valid, wr, postFlow, obs, runs,
                 prev>>

run_pick ==
  /\ \E p \in Processes : overlap_pick(p)
  /\ UNCHANGED <<entry, files0, classified, cmd, user, pc, ret, ig, igOuter, attempts, err,
                 calls, result, reused, validated, files, valid, wr, postFlow, obs, runs,
                 prev>>

run_igFromSession ==
  /\ \E p \in Processes : overlap_session(p)
  /\ UNCHANGED <<entry, files0, classified, cmd, user, pc, ret, ig, igOuter, attempts, err,
                 calls, result, reused, validated, files, valid, wr, postFlow, obs, runs,
                 prev>>

run_download ==
  /\ \E p \in Processes : overlap_download(p)
  /\ UNCHANGED <<entry, files0, classified, cmd, user, pc, ret, ig, igOuter, attempts, err,
                 calls, result, reused, validated, files, valid, wr, postFlow, obs, runs,
                 prev>>

run_publish ==
  /\ \E p \in Processes : overlap_publish(p)
  /\ UNCHANGED <<entry, files0, classified, cmd, user, pc, ret, ig, igOuter, attempts, err,
                 calls, result, reused, validated, files, valid, wr, postFlow, obs, runs,
                 prev>>

run_saveOpen ==
  /\ \E p \in Processes : overlap_saveOpen(p)
  /\ UNCHANGED <<entry, files0, classified, cmd, user, pc, ret, ig, igOuter, attempts, err,
                 calls, result, reused, validated, files, valid, wr, postFlow, obs, runs,
                 prev>>

run_saveData ==
  /\ \E p \in Processes : overlap_saveData(p)
  /\ UNCHANGED <<entry, files0, classified, cmd, user, pc, ret, ig, igOuter, attempts, err,
                 calls, result, reused, validated, files, valid, wr, postFlow, obs, runs,
                 prev>>

NextOverlap ==
  \/ run_readState
  \/ run_pick
  \/ run_igFromSession
  \/ run_download
  \/ run_publish
  \/ run_saveOpen
  \/ run_saveData

SpecOverlap == InitOverlap /\ [][NextOverlap]_vars

(***************************************************************************)
(* The classification of an error, applied to any error text: by           *)
(* normalizeApiError, and by the tests of the two variants of login().     *)
(***************************************************************************)
ClassifyMorphemes ==
  {"checkpoint", "challenge", "two_factor", "_required", "two-factor", "Two-Factor",
   "2FA", "bad_password"}

Texts == UNION {[1..n -> ClassifyMorphemes] : n \in 0..MaxTextLen}

InitClassify ==
  /\ entry = "idle"
  /\ user = NoUser
  /\ pc = "N_start"
  /\ ret = "none"
  /\ ig = IgApiClient
  /\ igOuter = IgApiClient
  /\ attempts = 0
  /\ \E message \in Texts : \E bodyMessage \in Texts :
       err = ApiError(message, bodyMessage, FALSE)
  /\ calls = <<>>
  /\ result = "none"
  /\ reused = FALSE
  /\ validated = [inner |-> FALSE, outer |-> FALSE]
  /\ files = [q \in Paths |-> NoFile]
  /\ files0 = files
  /\ valid = {}
  /\ wr = NoWrite
  /\ postFlow = "none"
  /\ obs = NoObs
  /\ runs = 0
  /\ prev = NoPrev
  /\ classified = NoClass
  /\ cmd = NoCmd
  /\ up = NoUp

\* const parsed = normalizeApiError(error)
normalizeApiError_call ==
  /\ pc = "N_start"
  /\ LET p == normalizeApiError(err)
     IN classified' = [by |-> "normalizeApiError", isCheckpoint |-> p.isCheckpoint,
                       isChallenge |-> p.isChallenge, isTwoFactor |-> p.isTwoFactor]
  /\ entry' = "normalizeApiError"
  /\ pc' = "done"
  /\ UNCHANGED <<files0, cmd, up, user, ret, ig, igOuter, attempts, err, calls, result,
                 reused, validated, files, valid, wr, postFlow, obs, runs, prev>>

\* The tests of the catch block of login(): includes('checkpoint'),
\* includes('challenge'), includes('two-factor').
login_classify ==
  /\ pc = "N_start"
  /\ \E variant \in {"loginA", "loginB"} :
       /\ classified' = [by |-> variant,
                         isCheckpoint |-> includes(errorMsg(variant, err), M_checkpoint),
                         isChallenge |-> includes(errorMsg(variant, err), M_challenge),
                         isTwoFactor |-> isTwoFactorMsg(errorMsg(variant, err))]
       /\ entry' = variant
  /\ pc' = "done"
  /\ UNCHANGED <<files0, cmd, up, user, ret, ig, igOuter, attempts, err, calls, result,
                 reused, validated, files, valid, wr, postFlow, obs, runs, prev>>

NextClassify == normalizeApiError_call \/ login_classify

SpecClassify == InitClassify /\ [][NextClassify]_vars

(***************************************************************************)
(* Observations on the call log of the running acquisition.                *)
(***************************************************************************)
\* The call at position i threw.
Threw(log, i) == i < Len(log) /\ log[i + 1] = "failed"

Failures(log, name) ==
  Cardinality({i \in 1..Len(log) : log[i] = name /\ Threw(log, i)})

EndsWith(log, tail) ==
  /\ Len(log) >= Len(tail)
  /\ SubSeq(log, Len(log) - Len(tail) + 1, Len(log)) = tail

\* The entry points that log in with the password.
LoginEntries == {"loginSingleAccount", "loginA", "loginB"}

\* The entry points that acquire a session, from a file or by logging in.
AcquisitionEntries == LoginEntries \cup {"main", "createIgFromSession"}

\* The session file of the running entry point.
SessionPath ==
  IF entry \in {"loginSingleAccount", "createIgFromSession"}
  THEN getSessionFilePath(user)
  ELSE SESSION_FILE

\* The text the running entry point saves for its client.
SavedText ==
  CASE entry \in {"loginSingleAccount", "createIgFromSession"} -> saveSessionText(ig)
    [] entry = "main" -> mainSessionText(ig)
    [] OTHER -> loginSessionText(ig)

\* The probe of the session restored from the file: the call after the read.
RestoreProbeAt(i) == i > 1 /\ calls[i] = "probe" /\ calls[i - 1] = "read"

RestoreProbePassed ==
  \E i \in 1..Len(calls) : RestoreProbeAt(i) /\ ~Threw(calls, i)

RestoreProbeFailed ==
  \E i \in 1..Len(calls) : RestoreProbeAt(i) /\ Threw(calls, i)

PasswordLoginSucceeded ==
  \E i \in 1..Len(calls) : calls[i] = "login" /\ ~Threw(calls, i)

\* A file that exists and does not load: JSON.parse or deserialize throws.
CorruptFile(file) ==
  file.exists /\ (~readJson(file).ok \/ deserializeThrows(readJson(file)))

\* An error no classifier of the scripts takes for a challenge.
PlainError(e) ==
  /\ e # NoError
  /\ ~isRecoverablePreLoginError(e)
  /\ ~isCheckpointMsg(errorMsgA(e)) /\ ~isCheckpointMsg(errorMsgB(e))
  /\ ~isTwoFactorMsg(errorMsgA(e)) /\ ~isTwoFactorMsg(errorMsgB(e))

ChallengeCalls ==
  {"auto", "askChoice", "askCode", "ask2fa", "getChallenge", "selectVerifyMethod",
   "challengeCode", "sendSecurityCode", "twoFactorLogin", "loginCode"}

NoChallengeCalls == \A i \in 1..Len(calls) : calls[i] \notin ChallengeCalls

LoginIndexes == {i \in 1..Len(calls) : calls[i] = "login"}

\* The position of the last password login (0 before the first).
LastLogin == IF LoginIndexes = {} THEN 0 ELSE CHOOSE i \in LoginIndexes : \A j \in LoginIndexes : j <= i

CodePrompts == {"askCode", "ask2fa"}

PromptsSinceLastLogin ==
  Cardinality({i \in (LastLogin + 1)..Len(calls) : calls[i] \in CodePrompts})

\* The running entry point takes the error for a two-factor challenge.
TwoFactorClassified(e) ==
  IF entry = "loginSingleAccount"
  THEN normalizeApiError(e).isTwoFactor
  ELSE isTwoFactorMsg(errorMsg(entry, e))

\* The handling of the last failed login is over.
AttemptOver ==
  pc \in {"done", "L_sleep", "L_save", "S_save", "write_open", "write_data", "return_ok"}

\* The submissions of a checkpoint code, in order.
CodeIndexes == {i \in 1..Len(calls) : calls[i] \in {"challengeCode", "sendSecurityCode"}}

NthCode(n) ==
  CHOOSE i \in CodeIndexes : Cardinality({j \in CodeIndexes : j < i}) = n - 1

(***************************************************************************)
(* Properties.                                                             *)
(***************************************************************************)
\* C1: an acquisition by loginSingleAccount whose session file exists, parses
\* and passes the probe returns at once with the session reused: exactly one
\* probe call, no password login, no pre-login call, no write.  After such an
\* acquisition the next one for the same username loads the file again, so
\* the same counts hold for it whenever its probe passes.
C1_ReusedSession ==
  /\ (entry = "loginSingleAccount" /\ RestoreProbePassed) =>
       /\ pc = "done"
       /\ result = "ok"
       /\ reused
       /\ Count(calls, "probe") = 1
       /\ Count(calls, "login") = 0
       /\ Count(calls, "preLogin") = 0
       /\ files = files0
  /\ ( /\ entry = "loginSingleAccount"
       /\ prev.entry = "loginSingleAccount"
       /\ prev.reused
       /\ prev.user = user
       /\ Len(calls) >= 3 ) =>
       calls[3] = "read" /\ ~Threw(calls, 3)

\* Two consecutive acquisitions for one username, both reusing the session.
C1_Witness ==
  /\ entry = "loginSingleAccount"
  /\ runs = 2
  /\ prev.entry = "loginSingleAccount"
  /\ prev.user = user
  /\ prev.result = "ok"
  /\ prev.reused
  /\ pc = "done"
  /\ reused
  /\ RestoreProbePassed
  /\ Count(calls, "probe") = 1

\* C2, as stated: whenever the probe of the loaded session fails, a password
\* login is issued, and when it succeeds the acquisition reports success with
\* the session file overwritten by the new state.
C2_AsStated ==
  (entry \in LoginEntries /\ RestoreProbeFailed /\ pc = "done") =>
     /\ Count(calls, "login") >= 1
     /\ PasswordLoginSucceeded =>
          /\ result = "ok"
          /\ files[SessionPath] = File(SavedText)

\* C2, amended: a failed probe of the loaded session is not fatal and never
\* counts as a reuse; the next call is the first of the fresh-login path (the
\* pre-login flow in loginSingleAccount, the password login in login()), and
\* the acquisition ends without a password login only when loginSingleAccount's
\* pre-login flow throws an error that is not a challenge.  When the password
\* login succeeds the acquisition ends in success, and success is reported
\* only with the session file already overwritten by the new serialized
\* state, which differs from the file the acquisition found.
C2_FreshLoginAfterFailedProbe ==
  (entry \in LoginEntries /\ RestoreProbeFailed) =>
     /\ \A i \in 1..Len(calls) :
          (RestoreProbeAt(i) /\ Len(calls) >= i + 2) =>
             calls[i + 2] = IF entry = "loginSingleAccount" THEN "preLogin" ELSE "login"
     /\ pc = "done" =>
          \/ Count(calls, "login") >= 1
          \/ entry = "loginSingleAccount" /\ EndsWith(calls, <<"preLogin", "failed">>)
     /\ (pc = "done" /\ PasswordLoginSucceeded) => result = "ok"
     /\ result = "ok" =>
          /\ ~reused
          /\ validated.inner
          /\ EndsWith(calls, <<"write">>)
          /\ files[SessionPath] = File(SavedText)
          /\ PasswordLoginSucceeded => files[SessionPath] # files0[SessionPath]

\* A failed probe, a successful login, and the file replaced.
C2_Witness ==
  /\ entry = "loginSingleAccount"
  /\ RestoreProbeFailed
  /\ PasswordLoginSucceeded
  /\ result = "ok"
  /\ files0[SessionPath].exists
  /\ files[SessionPath] = File(SavedText)
  /\ files[SessionPath] # files0[SessionPath]

\* C3: an acquisition that finds a corrupt session file goes on as after a
\* missing file: it never ends before the pre-login or login call that a
\* missing file leads to.
C3_CorruptAsMissing ==
  (entry \in AcquisitionEntries /\ CorruptFile(files0[SessionPath]) /\ pc = "done") =>
     Count(calls, "preLogin") + Count(calls, "login") >= 1

\* C4: in every login entry point an acquisition that ends on a login
\* failure, with no failure taken for a challenge, has issued exactly
\* maxAttempts password logins, with a wait between consecutive ones.
C4_ThreeAttempts ==
  ( /\ entry \in LoginEntries
    /\ pc = "done"
    /\ result = "fail"
    /\ EndsWith(calls, <<"login", "failed">>)
    /\ PlainError(err)
    /\ NoChallengeCalls ) =>
     /\ Count(calls, "login") = maxAttempts
     /\ Failures(calls, "login") = maxAttempts
     /\ Count(calls, "sleep") = maxAttempts - 1
     /\ \A i, j \in LoginIndexes :
          i < j => \E k \in i..j : calls[k] = "sleep"

\* C5: once the handling of a failed password login whose error is taken for
\* two-factor is over, the operator has been prompted for a code exactly once
\* since that login; and an accepted two-factor code ends the acquisition in
\* success, the session saved, with no password login after it.
C5_TwoFactorOnce ==
  /\ ( /\ entry \in LoginEntries
       /\ LastLogin > 0
       /\ Threw(calls, LastLogin)
       /\ TwoFactorClassified(err)
       /\ AttemptOver ) =>
       PromptsSinceLastLogin = 1
  /\ \A i \in 1..Len(calls) :
       ( /\ entry \in LoginEntries
         /\ calls[i] \in {"twoFactorLogin", "loginCode"}
         /\ ~Threw(calls, i)
         /\ pc = "done" ) =>
         /\ result = "ok"
         /\ EndsWith(calls, <<"write">>)
         /\ \A j \in (i + 1)..Len(calls) : calls[j] # "login"

\* C6: in every login entry point an acquisition in which the first checkpoint
\* code submitted was rejected and the second accepted ends in success, with
\* exactly two prompts for a code.
C6_RejectedThenAccepted ==
  ( /\ entry \in LoginEntries
    /\ pc = "done"
    /\ Cardinality(CodeIndexes) >= 2
    /\ Threw(calls, NthCode(1))
    /\ ~Threw(calls, NthCode(2)) ) =>
     /\ result = "ok"
     /\ Count(calls, "askCode") = 2

\* C7: in every login entry point there is never a third prompt for a
\* checkpoint code, and once two checkpoint codes in a row have been rejected
\* the acquisition has failed.
C7_NoThirdPrompt ==
  entry \in LoginEntries =>
     /\ Count(calls, "askCode") <= 2
     /\ ( /\ Cardinality(CodeIndexes) >= 2
          /\ Threw(calls, NthCode(1))
          /\ Threw(calls, NthCode(2)) ) =>
          pc = "done" /\ result = "fail"

\* C8: a client that an entry point returns, reports as logged in or goes on
\* to use has passed a probe or a login since it was created or loaded.
C8_ValidatedHandle ==
  (pc = "done" /\ result = "ok") =>
     IF entry = "createIgFromSession" THEN validated.outer ELSE validated.inner

\* C9: with no session file at the start and a first password login that
\* succeeds, loginSingleAccount ends in success with a session file at
\* sessions_dir/username, and reading that file back and deserializing it
\* into a new client gives the state that was serialized; the client that
\* createIgFromSession then loads from the file is that state as well.
C9_RoundTrip ==
  ( /\ entry \in {"loginSingleAccount", "createIgFromSession"}
    /\ ~files0[getSessionFilePath(user)].exists
    /\ Count(calls, "login") = 1
    /\ PasswordLoginSucceeded
    /\ Count(calls, "probe") = 0 ) =>
     /\ (entry = "loginSingleAccount" /\ pc = "done") =>
          LET file == files[<<sessions_dir, user>>]
          IN /\ result = "ok"
             /\ file.exists
             /\ readJson(file).ok
             /\ ~deserializeThrows(readJson(file))
             /\ deserialize(generateDevice(IgApiClient, user), readJson(file).obj) = ig
     /\ (entry = "createIgFromSession" /\ pc = "C_probe") =>
          igOuter = ig

\* A first login without a file, saved and read back.
C9_Witness ==
  /\ entry = "loginSingleAccount"
  /\ user = "demo"
  /\ ~files0[getSessionFilePath(user)].exists
  /\ calls = <<"loginSingleAccount", "exists", "preLogin", "login", "write">>
  /\ result = "ok"
  /\ files[<<sessions_dir, "demo">>] = File(saveSessionText(ig))
  /\ ig.cookies # NoCookie

\* C10: a reader of a session file sees the complete content the file had
\* before the save in progress or the complete content the save writes.
C10_AtomicSave ==
  obs.seen => obs.file \in {obs.before, obs.after}

\* The calls that go to the service.
ServiceCalls ==
  {"probe", "preLogin", "login", "twoFactorLogin", "sendSecurityCode", "auto",
   "postLogin", "publish"}

\* C11: within one acquisition, by loginSingleAccount alone or through
\* createIgFromSession, the session file is read at most once, before any
\* call to the service, and written at most once, as the last call of an
\* acquisition that succeeds.
C11_ReadOnceWriteOnce ==
  entry \in {"loginSingleAccount", "createIgFromSession"} =>
     /\ Count(calls, "read") <= 1
     /\ Count(calls, "write") <= 1
     /\ \A i \in 1..Len(calls) :
          calls[i] = "read" => \A j \in 1..(i - 1) : calls[j] \notin ServiceCalls
     /\ \A i \in 1..Len(calls) :
          calls[i] = "write" => i = Len(calls) /\ (pc = "done" => result = "ok")

\* C12: after a failed probe of a session loaded from the file, no other
\* probe is issued before a password login is attempted.
C12_ProbeNotRetried ==
  entry \in {"loginSingleAccount", "createIgFromSession"} =>
     \A i, j \in 1..Len(calls) :
        ( /\ i < j
          /\ RestoreProbeAt(i)
          /\ Threw(calls, i)
          /\ calls[j] = "probe" ) =>
          \E k \in (i + 1)..(j - 1) : calls[k] = "login"

\* The text the classification is stated on: the lower-cased message, a
\* space, the lower-cased message of the response body.
FullText(e) == toLowerCase(e.message \o <<" ">> \o e.body)

\* C13: every classifier of the scripts takes an error for two-factor exactly
\* when its lower-cased full text contains two_factor_required or two-factor,
\* for a checkpoint exactly when it contains checkpoint_required, for a
\* challenge exactly when it contains challenge_required.
C13_Classification ==
  classified.by # "none" =>
     /\ classified.isTwoFactor <=>
          (includes(FullText(err), M_two_factor_required) \/ includes(FullText(err), M_two_factor))
     /\ classified.isCheckpoint <=> includes(FullText(err), M_checkpoint_required)
     /\ classified.isChallenge <=> includes(FullText(err), M_challenge_required)

\* The account whose acquisition is in progress, if any: the last event of
\* the command is its start.
InProgress(events) == Len(events) > 0 /\ events[Len(events)].ev = "start"

\* C14: in the login command, account i+1 never starts before the
\* acquisition of account i has finished and the minimum delay (2500 ms
\* unless configured) has then elapsed, after a failed account as after a
\* successful one, and no two acquisitions are in progress together.
C14_SequentialWithDelay ==
  cmd.active =>
     /\ \A k \in 1..Len(cmd.events) :
          cmd.events[k].ev = "start" =>
             \/ k = 1 /\ cmd.events[k].i = 1
             \/ /\ k >= 4
                /\ cmd.events[k - 1] = Event("sleep", cmd.events[k].i - 1, FALSE, cmd.delayMs)
                /\ cmd.events[k - 2].ev = "end"
                /\ cmd.events[k - 2].i = cmd.events[k].i - 1
                /\ cmd.events[k - 3] = Event("start", cmd.events[k].i - 1, FALSE, 0)
     /\ cmd.delayMs > 0
     /\ cmd.delayMs # MinDelayDefaultMs => cmd.delayMs \in ConfiguredDelays
     /\ pc \notin {"A_loop", "A_call", "A_sleep", "A_summary", "exit", "done"} =>
          InProgress(cmd.events)
     /\ pc \in {"A_loop", "A_sleep", "A_summary", "exit"} => ~InProgress(cmd.events)

\* The second account has started after the first one failed.
C14_Witness ==
  /\ cmd.active
  /\ Len(cmd.events) = 4
  /\ cmd.events[2] = Event("end", 1, FALSE, 0)
  /\ cmd.events[3] = Event("sleep", 1, FALSE, MinDelayDefaultMs)
  /\ cmd.events[4] = Event("start", 2, FALSE, 0)
  /\ Count(calls, "probe") = 1

\* C15: a failed acquisition never prevents the later usernames from being
\* attempted, and the exit code of the command is 0 exactly when every
\* targeted account succeeded.
C15_AllAttemptedExitCode ==
  (cmd.active /\ pc = "exit") =>
     /\ Len(cmd.results) = Len(cmd.usernames)
     /\ \A k \in 1..Len(cmd.usernames) :
          /\ cmd.results[k].username = cmd.usernames[k]
          /\ \E e \in 1..Len(cmd.events) :
               cmd.events[e] = Event("end", k, cmd.results[k].ok, 0)
     /\ cmd.exitCode \in {0, 1}
     /\ cmd.exitCode = 0 <=> \A k \in 1..Len(cmd.results) : cmd.results[k].ok

\* The first account failed, the second one succeeded, the command exits 1.
C15_Witness ==
  /\ cmd.active
  /\ pc = "exit"
  /\ Len(cmd.results) = 2
  /\ ~cmd.results[1].ok
  /\ cmd.results[2].ok
  /\ cmd.exitCode = 1

\* The candidates of the list whose key is not in the uploaded set.
Unposted == {i \in 1..Len(up.videos) : ~has(up.uploadedSet, up.videos[i].Key)}

\* C16: pickNextUnpostedVideo returns the first item of the candidate list,
\* which is in ascending last-modified order, whose key is not in the
\* uploaded set, null when every candidate key is in the set, and never an
\* item whose key is in the set.
C16_FirstUnposted ==
  entry = "pickNextUnpostedVideo" =>
     /\ \A i, j \in 1..Len(up.videos) :
          i < j => getTime(up.videos[i]) <= getTime(up.videos[j])
     /\ Unposted = {} <=> up.nextVideo = NoItem
     /\ Unposted # {} =>
          /\ \E i \in Unposted :
               /\ up.nextVideo = up.videos[i]
               /\ \A j \in Unposted : i <= j
          /\ \A j \in Unposted : getTime(up.nextVideo) <= getTime(up.videos[j])
          /\ ~has(up.uploadedSet, up.nextVideo.Key)

\* With a.mp4 uploaded and candidates a.mp4, b.MOV, the choice is b.MOV.
C16_Witness ==
  /\ entry = "pickNextUnpostedVideo"
  /\ Len(up.videos) = 2
  /\ up.videos[1].Key = <<"a", ".mp4">>
  /\ up.videos[2].Key = <<"b", ".MOV">>
  /\ up.uploadedSet = <<<<"a", ".mp4">>>>
  /\ up.nextVideo = up.videos[2]

\* The set uploaded_keys that a state file stores.
StoredKeys(file) == {uploaded_keys(file)[i] : i \in 1..Len(uploaded_keys(file))}

\* C17: across upload runs the set uploaded_keys of the upload-state file
\* only grows: every key present before a run is present after it, whether
\* the run succeeded, failed or had nothing to do.
C17_KeysOnlyGrow ==
  (up.active /\ pc = "exit") => StoredKeys(up.file0) \subseteq StoredKeys(up.file)

\* A second run has added b.MOV to a state that held a.mp4.
C17_Witness ==
  /\ up.active
  /\ pc = "exit"
  /\ up.n = 2
  /\ up.exit = 0
  /\ up.file0.uploaded_keys = <<<<"a", ".mp4">>>>
  /\ up.file.uploaded_keys = <<<<"a", ".mp4">>, <<"b", ".MOV">>>>

\* The calls of publishAsReel in the log of the run: what follows a
\* download that did not fail.
PublishLog ==
  LET d == {i \in 1..Len(up.log) : up.log[i] = "download"}
  IN IF d = {} THEN <<>>
     ELSE LET i == CHOOSE i \in d : TRUE
          IN IF i < Len(up.log) /\ up.log[i + 1] = "failed" THEN <<>>
             ELSE SelectSeq(SubSeq(up.log, i + 1, Len(up.log)),
                            LAMBDA x : x # "saveJson")

AllPayloadsFailed == <<"isClip", "failed", "reel", "failed", "plain", "failed">>

\* C18: publishAsReel tries the payloads isClip, post='reel', plain in this
\* order, the next one only after the previous one failed, returns at the
\* first success without a later call, and throws the error of the last
\* attempt when all three fail.
C18_ThreePayloadsInOrder ==
  (up.active /\ Count(up.log, "download") = 1 /\ up.log[Len(up.log)] # "download"
     /\ ~EndsWith(up.log, <<"download", "failed">>)) =>
     /\ Len(PublishLog) <= Len(AllPayloadsFailed)
     /\ PublishLog = SubSeq(AllPayloadsFailed, 1, Len(PublishLog))
     /\ pc = "R_publish" => Len(PublishLog) = 2 * (up.attempt - 1)
     /\ pc # "R_publish" =>
          \/ /\ Len(PublishLog) % 2 = 1
             /\ pc \in {"R_save", "R_save_data", "exit"}
             /\ pc = "exit" => up.exit = 0
          \/ /\ PublishLog = AllPayloadsFailed
             /\ pc = "exit"
             /\ up.exit = 1
             /\ up.lastError = "plain"

\* The third payload was published after the first two had failed.
C18_Witness ==
  /\ up.active
  /\ pc = "exit"
  /\ up.exit = 0
  /\ PublishLog = <<"isClip", "failed", "reel", "failed", "plain">>

\* The run found no video to upload: the listing ended and no candidate,
\* if any, was left to choose.
NothingToDo ==
  /\ Count(up.log, "list") > 0
  /\ Count(up.log, "failed") = 0
  /\ up.pages = <<>>
  /\ up.nextVideo = NoItem

\* C19: an upload run exits with status 0 when the publish succeeded or
\* when there is nothing to do, with status 1 on any failure; with nothing
\* to do it acquires no session, downloads and publishes nothing and leaves
\* the upload-state file unchanged.
C19_ExitStatus ==
  (up.active /\ pc = "exit") =>
     /\ up.exit \in {0, 1}
     /\ up.exit = 0 <=> (NothingToDo \/ Len(PublishLog) % 2 = 1)
     /\ up.exit = 1 <=> up.log[Len(up.log)] = "failed"
     /\ NothingToDo =>
          /\ \A i \in 1..Len(up.videos) : has(up.uploadedSet, up.videos[i].Key)
          /\ \A i \in 1..Len(up.log) : up.log[i] \in {"readState", "list"}
          /\ calls = <<>>
          /\ files = files0
          /\ up.file = up.file0

\* Every video of the bucket was uploaded already: status 0, nothing done.
C19_Witness ==
  /\ up.active
  /\ pc = "exit"
  /\ NothingToDo
  /\ Len(up.videos) = 1
  /\ up.uploadedSet = <<<<"a", ".mp4">>>>
  /\ up.exit = 0

\* C20: within one acquisition by the retrying login(), between any two
\* consecutive password-login attempts the fixed backoff of RetryDelayMs
\* elapses.
C20_BackoffBetweenAttempts ==
  entry \in {"loginA", "loginB"} =>
     \A i, j \in LoginIndexes :
        i < j => \E k \in (i + 1)..(j - 1) : calls[k] = "sleep"

\* C21: in loginSingleAccount, when a challenge is raised and the operator
\* supplies an empty code, no code is submitted (twoFactorLogin,
\* sendSecurityCode), the acquisition fails and no session file is written.
C21_EmptyCodeFails ==
  (entry = "loginSingleAccount" /\ Count(calls, "empty") > 0) =>
     /\ pc = "done"
     /\ result = "fail"
     /\ calls[Len(calls)] = "empty"
     /\ Count(calls, "twoFactorLogin") = 0
     /\ Count(calls, "sendSecurityCode") = 0
     /\ Count(calls, "write") = 0
     /\ wr = NoWrite
     /\ files = files0

\* A checkpoint was raised and the operator entered nothing.
C21_Witness ==
  /\ entry = "loginSingleAccount"
  /\ EndsWith(calls, <<"login", "failed", "auto", "askCode", "empty">>)
  /\ pc = "done"
  /\ result = "fail"

\* An error in which normalizeApiError finds no challenge marker.
Unclassified(e) ==
  /\ e # NoError
  /\ ~normalizeApiError(e).isTwoFactor
  /\ ~normalizeApiError(e).isCheckpoint
  /\ ~normalizeApiError(e).isChallenge

\* C22: a password-login failure that matches no challenge marker ends
\* loginSingleAccount in failure at that login, whose error is the one
\* thrown on: no code prompt and no challenge call follow it (none at all
\* when it is the first password login), and the session file is left as
\* it was.
C22_PlainFailureFails ==
  ( /\ entry = "loginSingleAccount"
    /\ LastLogin > 0
    /\ Threw(calls, LastLogin)
    /\ Unclassified(err) ) =>
     /\ pc = "done"
     /\ result = "fail"
     /\ Len(calls) = LastLogin + 1
     /\ Count(calls, "login") = 1 => NoChallengeCalls
     /\ Count(calls, "write") = 0
     /\ files = files0

\* The only password login of the acquisition was rejected outright.
C22_Witness ==
  /\ entry = "loginSingleAccount"
  /\ pc = "done"
  /\ result = "fail"
  /\ Count(calls, "login") = 1
  /\ EndsWith(calls, <<"login", "failed">>)
  /\ Unclassified(err)

\* The submissions of a two-factor code: twoFactorLogin carries the
\* two_factor_identifier of the error, the login with a verificationCode
\* ("loginCode") carries none.
TwoFactorSubmissions == {"twoFactorLogin", "loginCode"}

\* C23: the two-factor code is always submitted bound to the
\* two_factor_identifier of the login error that raised the challenge; when
\* that error carries no two-factor info the acquisition fails without a
\* prompt and without a submission.
C23_BoundToIdentifier ==
  entry \in LoginEntries =>
     /\ Count(calls, "loginCode") = 0
     /\ ( /\ LastLogin > 0
          /\ Threw(calls, LastLogin)
          /\ TwoFactorClassified(err)
          /\ ~err.tfi
          /\ AttemptOver ) =>
          /\ PromptsSinceLastLogin = 0
          /\ \A i \in (LastLogin + 1)..Len(calls) : calls[i] \notin TwoFactorSubmissions
          /\ pc = "done"
          /\ result = "fail"

\* The objects of all the pages of the bucket.
AllObjects == {up.bucket[p][i] : <<p, i>> \in {c \in (1..Len(up.bucket)) \X (1..MaxVideos) :
                                                   c[2] <= Len(up.bucket[c[1]])}}

VideoExtensions == {".mp4", ".mov", ".m4v", ".webm"}

\* C24: listAllVideosFromR2 requests every page of the listing and returns
\* exactly the objects, over all pages, whose key ends, whatever its case,
\* with .mp4, .mov, .m4v or .webm, in ascending order of last-modified time,
\* a missing time counted as 0.
C24_AllVideosSorted ==
  (entry = "listAllVideosFromR2" /\ pc = "done") =>
     /\ Count(up.log, "list") = Len(up.bucket)
     /\ {up.videos[i] : i \in 1..Len(up.videos)} =
          {o \in AllObjects : ToLowerMorpheme(o.Key[Len(o.Key)]) \in VideoExtensions}
     /\ \A i, j \in 1..Len(up.videos) : up.videos[i] = up.videos[j] => i = j
     /\ \A i, j \in 1..Len(up.videos) :
          i < j => up.videos[i].LastModified <= up.videos[j].LastModified

\* Three pages: b.MOV, then notes.txt, then d.webm, which has no time and is
\* returned first.
C24_Witness ==
  /\ entry = "listAllVideosFromR2"
  /\ pc = "done"
  /\ Len(up.bucket) = 3
  /\ up.bucket[1] = <<[Key |-> <<"b", ".MOV">>, LastModified |-> 2]>>
  /\ up.bucket[3] = <<[Key |-> <<"d", ".webm">>, LastModified |-> 0]>>
  /\ up.videos = <<[Key |-> <<"d", ".webm">>, LastModified |-> 0],
                   [Key |-> <<"b", ".MOV">>, LastModified |-> 2]>>

UploadJsEntries == {"uploadJsReel", "uploadJsVideo"}

\* C25: the standalone upload script publishes only after the saved session
\* passed a probe in that run; when the session file is missing or the probe
\* fails it exits with status 1 without any login call and without any
\* publish call.
C25_PublishAfterProbe ==
  entry \in UploadJsEntries =>
     /\ \A i \in 1..Len(calls) :
          calls[i] = "publish" =>
             /\ validated.inner
             /\ \E j \in 1..(i - 1) : calls[j] = "probe" /\ ~Threw(calls, j)
     /\ \A i \in 1..Len(calls) :
          calls[i] \notin {"login", "loginCode", "twoFactorLogin", "preLogin"}
     /\ files = files0
     /\ ( \/ (Len(calls) >= 2 /\ ~files0[SESSION_FILE].exists)
          \/ Failures(calls, "probe") > 0 ) =>
          /\ pc = "done"
          /\ result = "fail"
          /\ Count(calls, "publish") = 0

\* The session of the file was no longer valid: the script ended with 1.
C25_Witness ==
  /\ entry \in UploadJsEntries
  /\ EndsWith(calls, <<"read", "probe", "failed">>)
  /\ pc = "done"
  /\ result = "fail"

\* C26: the retrying login() ends in exactly one of two ways: it returns an
\* authenticated client, after a valid probe or after a successful login
\* whose session was saved, or it throws; it never completes normally
\* without a client and without a saved session.
C26_ClientOrThrow ==
  (entry \in {"loginA", "loginB"} /\ pc = "done") =>
     \/ result = "fail"
     \/ /\ result = "ok"
        /\ validated.inner
        /\ \/ reused /\ RestoreProbePassed /\ Count(calls, "write") = 0
           \/ /\ EndsWith(calls, <<"write">>)
              /\ files[SESSION_FILE] = File(loginSessionText(ig))

\* An authentication has succeeded in the acquisition: a password login, a
\* two-factor submission, or a checkpoint code followed by a successful
\* probe or login.
AuthenticationSucceeded ==
  \/ \E i \in 1..Len(calls) :
       calls[i] \in {"login", "twoFactorLogin", "loginCode"} /\ ~Threw(calls, i)
  \/ \E i \in 1..Len(calls) : \E j \in (i + 1)..Len(calls) :
       /\ calls[i] \in {"sendSecurityCode", "challengeCode"} /\ ~Threw(calls, i)
       /\ calls[j] \in {"probe", "login"} /\ ~Threw(calls, j)

\* C27: loginSingleAccount and login() write the session file only after an
\* authentication success in that acquisition; whenever the acquisition
\* fails, the existence and the content of the file are those of before.
C27_WriteOnlyAfterSuccess ==
  entry \in LoginEntries =>
     /\ (pc \in {"write_open", "write_data"} \/ Count(calls, "write") > 0 \/ files # files0) =>
          AuthenticationSucceeded
     /\ (pc = "done" /\ result # "ok") => files = files0

\* A rejected two-factor code: the acquisition failed, the old file is there.
C27_Witness ==
  /\ entry \in LoginEntries
  /\ pc = "done"
  /\ result = "fail"
  /\ EndsWith(calls, <<"twoFactorLogin", "failed">>)
  /\ files0[SessionPath].exists
  /\ files = files0

\* One of the publish attempts of the run succeeded.
PublishSucceeded == Len(PublishLog) % 2 = 1

\* C28: an upload run adds the selected key to uploaded_keys and rewrites
\* the upload-state file if and only if one of the publish attempts
\* succeeded; when the session acquisition, the download or all three
\* publish attempts fail, the file is left unchanged and the run ends with
\* an error.
C28_RecordedIffPublished ==
  up.active =>
     /\ up.file # up.file0 => (PublishSucceeded /\ pc \in {"R_save_data", "exit"})
     /\ pc = "exit" =>
          /\ PublishSucceeded <=> Count(up.log, "saveJson") = 1
          /\ PublishSucceeded =>
               /\ up.nextVideo.Key \notin StoredKeys(up.file0)
               /\ StoredKeys(up.file) = StoredKeys(up.file0) \cup {up.nextVideo.Key}
               /\ up.file.last_uploaded = up.nextVideo.Key
               /\ up.file # up.file0
          /\ ~PublishSucceeded => up.file = up.file0
          /\ ( \/ EndsWith(up.log, <<"createIgFromSession", "failed">>)
               \/ EndsWith(up.log, <<"download", "failed">>)
               \/ PublishLog = AllPayloadsFailed ) =>
               /\ up.file = up.file0
               /\ up.exit = 1

\* All three payloads were refused: the state file that held a.mp4 is as it
\* was and the run ended with status 1.
C28_Witness ==
  /\ up.active
  /\ pc = "exit"
  /\ PublishLog = AllPayloadsFailed
  /\ up.file0.exists
  /\ up.file0.uploaded_keys = <<<<"a", ".mp4">>>>
  /\ up.file = up.file0
  /\ up.exit = 1

\* C29: across upload runs of one username that execute one after another,
\* each to its end, no object key is published successfully more than
\* once.
C29_PublishedOnce ==
  /\ \A i, j \in 1..Len(up.published) : up.published[i] = up.published[j] => i = j
  /\ (up.active /\ pc = "exit") =>
       \A i \in 1..Len(up.published) : up.published[i] \in StoredKeys(up.file)

\* The first run published a.mp4, the second one b.MOV.
C29_Witness ==
  /\ up.active
  /\ pc = "exit"
  /\ up.n = 2
  /\ up.published = <<<<"a", ".mp4">>, <<"b", ".MOV">>>>

\* Both processes have ended, and their runs overlapped in time.
BothFinished ==
  /\ \A p \in Processes : up.procs[p].pc = "exit"
  /\ \E p \in Processes : up.procs[p].overlapped

\* C30: when two upload runs of one username overlap in time, no key is
\* published by both, and after both have ended the state file holds every
\* key that either of them published.
C30_NoDoubleNoLoss ==
  BothFinished =>
    /\ \A i, j \in 1..Len(up.published) : up.published[i] = up.published[j] => i = j
    /\ \A i \in 1..Len(up.published) : up.published[i] \in StoredKeys(up.file)

\* The videos of the bucket as every run of a series lists them.
SeriesVideos == sort(pushPages(<<>>, up.bucket))

SeriesKeys == {SeriesVideos[i].Key : i \in 1..Len(SeriesVideos)}

LastModifiedOf(key) ==
  getTime(SeriesVideos[CHOOSE i \in 1..Len(SeriesVideos) : SeriesVideos[i].Key = key])

\* The run has ended and none of its calls threw.
CleanRun == up.active /\ pc = "exit" /\ Count(up.log, "failed") = 0

\* C31, as stated: over a fixed listing of N videos, with every publish
\* succeeding, each run publishes a video as long as one is left.
C31_EveryRunPublishes ==
  ( /\ up.active
    /\ pc = "exit"
    /\ Count(up.log, "list") > 0
    /\ ~EndsWith(up.log, <<"list", "failed">>)
    /\ Count(PublishLog, "failed") = 0
    /\ ~(SeriesKeys \subseteq StoredKeys(up.file0)) ) => PublishSucceeded

\* C31, amended: over a fixed listing of N videos and an upload state that
\* starts empty, every run none of whose calls fails (listing, session,
\* download, publish) publishes exactly one video, the earliest one not yet
\* uploaded, and adds its key to uploaded_keys; the videos are published in
\* ascending last-modified order; once uploaded_keys holds all N keys a run
\* publishes nothing and leaves the state as it is.
C31_OneByOneInOrder ==
  /\ \A i \in 1..Len(up.published) : up.published[i] = SeriesVideos[i].Key
  /\ \A i, j \in 1..Len(up.published) :
       i < j => LastModifiedOf(up.published[i]) <= LastModifiedOf(up.published[j])
  /\ (up.active /\ pc = "exit") =>
       /\ StoredKeys(up.file) = {up.published[i] : i \in 1..Len(up.published)}
       /\ Len(up.published) = Len(SeriesVideos) => StoredKeys(up.file) = SeriesKeys
  /\ CleanRun =>
       IF SeriesKeys \subseteq StoredKeys(up.file0)
       THEN /\ PublishLog = <<>>
            /\ up.file = up.file0
            /\ up.exit = 0
       ELSE /\ PublishLog = <<"isClip">>
            /\ up.nextVideo = SeriesVideos[Cardinality(StoredKeys(up.file0)) + 1]
            /\ StoredKeys(up.file) = StoredKeys(up.file0) \cup {up.nextVideo.Key}
            /\ Cardinality(StoredKeys(up.file)) = Cardinality(StoredKeys(up.file0)) + 1
            /\ up.exit = 0

\* Two runs have published a.mp4 and b.MOV in this order, and the third run
\* has found nothing to do.
C31_Witness ==
  /\ CleanRun
  /\ up.n = 3
  /\ up.published = <<<<"a", ".mp4">>, <<"b", ".MOV">>>>
  /\ PublishLog = <<>>
  /\ up.file = up.file0
  /\ StoredKeys(up.file) = SeriesKeys

\* C32: provided every external call and every prompt returns, a session
\* acquisition terminates, in success or in a thrown failure, and the retry
\* loop of login() runs at most 3 iterations.
C32_TerminatesOkOrThrown ==
  /\ [](entry \in {"loginA", "loginB"} => Count(calls, "login") <= maxAttempts)
  /\ <>(pc = "done" /\ result \in {"ok", "fail"})

\* The password logins of the acquisition that threw.
FailedLogins == {i \in 1..Len(calls) : calls[i] = "login" /\ Threw(calls, i)}

\* The credential submissions to the login endpoint: plain logins and logins
\* that carry a two-factor code.
Submissions == {i \in 1..Len(calls) : calls[i] \in {"login", "loginCode"}}

\* C33: in the retrying login() the attempt counter is incremented exactly
\* once for each failed password login and never exceeds 3, and no more
\* than 3 credential submissions are made to the login endpoint in one
\* acquisition.
C33_AtMostThreeSubmissions ==
  entry \in {"loginA", "loginB"} =>
     /\ attempts = Cardinality(FailedLogins)
     /\ attempts <= maxAttempts
     /\ Cardinality(Submissions) <= maxAttempts

\* The place in the call log where the last call of loginSingleAccount
\* starts: createIgFromSession may call it a second time.
LastInvocation ==
  LET a == {i \in 1..Len(calls) : calls[i] = "loginSingleAccount"}
  IN IF a = {} THEN 0 ELSE CHOOSE i \in a : \A j \in a : j <= i

\* The place in the call log of the checkpoint code that was accepted in that
\* call of loginSingleAccount, 0 when there is none.
AcceptedCode ==
  LET a == {i \in (LastInvocation + 1)..Len(calls) :
              calls[i] = "sendSecurityCode" /\ ~Threw(calls, i)}
  IN IF a = {} THEN 0 ELSE CHOOSE i \in a : TRUE

\* The password logins made after the accepted code.
LoginsAfterCode == {i \in (AcceptedCode + 1)..Len(calls) : calls[i] = "login"}

\* C34: in loginSingleAccount, after a checkpoint code was accepted, the
\* next call is a probe; the password login is invoked again only when
\* that probe failed, and then once; the session is saved only after the
\* probe or that login succeeded.
C34_ReloginOnlyAfterFailedProbe ==
  (entry \in {"loginSingleAccount", "createIgFromSession"} /\ AcceptedCode > 0) =>
     LET k == AcceptedCode
         probed == Len(calls) > k /\ calls[k + 1] = "probe"
         probeOk == probed /\ ~Threw(calls, k + 1)
     IN /\ Len(calls) > k => probed
        /\ probeOk => LoginsAfterCode = {}
        /\ LoginsAfterCode \subseteq {k + 3}
        /\ LoginsAfterCode # {} => (probed /\ Threw(calls, k + 1))
        /\ (\E i \in (k + 1)..Len(calls) : calls[i] = "write") =>
              \/ probeOk
              \/ (k + 3 \in LoginsAfterCode /\ ~Threw(calls, k + 3))
        /\ (pc = "S_save" \/ pc = "write_open" \/ pc = "write_data") =>
              \/ probeOk
              \/ (k + 3 \in LoginsAfterCode /\ ~Threw(calls, k + 3))

\* The probe after the accepted code failed, the second login succeeded and
\* the session was saved.
C34_Witness ==
  /\ entry = "loginSingleAccount"
  /\ AcceptedCode > 0
  /\ EndsWith(calls, <<"sendSecurityCode", "probe", "failed", "login", "write">>)
  /\ pc = "done"
  /\ result = "ok"

\* The calls of the last call of loginSingleAccount.
Invocation == SubSeq(calls, LastInvocation + 1, Len(calls))

\* C35: in loginSingleAccount a pre-login-flow error that matches no
\* challenge marker ends the acquisition in failure before any password
\* login and before any session write; one classified as checkpoint,
\* challenge or two-factor is swallowed, and the password login is the next
\* call.
C35_PreLoginErrors ==
  (entry \in {"loginSingleAccount", "createIgFromSession"} /\ LastInvocation > 0) =>
     /\ EndsWith(calls, <<"preLogin", "failed">>) =>
          IF isRecoverablePreLoginError(err)
          THEN pc = "S_login" /\ result = "none"
          ELSE /\ pc = "done"
               /\ result = "fail"
               /\ Count(Invocation, "login") = 0
               /\ Count(Invocation, "write") = 0
               /\ wr = NoWrite
               /\ (entry = "loginSingleAccount" => files = files0)
     /\ \A i \in 1..(Len(Invocation) - 2) :
          (Invocation[i] = "preLogin" /\ Invocation[i + 1] = "failed")
             => Invocation[i + 2] = "login"

\* The pre-login flow failed with an error that matches no marker.
C35_Witness ==
  /\ entry = "loginSingleAccount"
  /\ EndsWith(calls, <<"preLogin", "failed">>)
  /\ ~isRecoverablePreLoginError(err)
  /\ err # NoError
  /\ pc = "done"
  /\ result = "fail"

\* The session file of the username holds the state of the client.
SessionSaved ==
  /\ EndsWith(calls, <<"write">>)
  /\ files[getSessionFilePath(user)] = File(saveSessionText(ig))

\* C36: the result of loginSingleAccount and the save of the session do not
\* depend on the deferred post-login flow: once it is scheduled the
\* acquisition never fails, no step of the flow changes the place, the
\* result or the files of the acquisition, and whether the flow succeeds,
\* fails or is still running, the acquisition ends reporting success with
\* the session file written.
C36_PostFlowIndependent ==
  /\ []((entry = "loginSingleAccount" /\ postFlow # "none") =>
          /\ pc \in {"write_open", "write_data", "return_ok", "done"}
          /\ result # "fail"
          /\ pc = "done" => (result = "ok" /\ ~reused /\ SessionSaved))
  /\ [][postFlow = "scheduled" /\ postFlow' \in {"ok", "failed"} =>
          UNCHANGED <<pc, result, reused, files, wr, calls, ig>>]_vars
  /\ \A f \in {"scheduled", "ok", "failed"} :
       (entry = "loginSingleAccount" /\ postFlow = f) ~>
          (pc = "done" /\ result = "ok" /\ SessionSaved)

\* The post-login flow has failed, and the acquisition has reported success
\* with the session saved.
C36_Witness ==
  /\ entry = "loginSingleAccount"
  /\ postFlow = "failed"
  /\ pc = "done"
  /\ result = "ok"
  /\ ~reused
  /\ SessionSaved

\* The calls made since the last password login of the acquisition: what
\* the handling of that failed attempt has done so far.
SinceLastLogin ==
  LET a == {i \in 1..Len(calls) : calls[i] = "login"}
  IN IF a = {} THEN <<>>
     ELSE SubSeq(calls, (CHOOSE i \in a : \A j \in a : j <= i) + 1, Len(calls))

\* handleCheckpoint has run: it starts with the prompt for the method in
\* login() of login.js, with challenge.auto in the others.
CheckpointHandlerRan(log) == Count(log, "askChoice") + Count(log, "auto") > 0

\* The two-factor handler has run as far as its prompt.
TwoFactorHandlerRan(log) == Count(log, "ask2fa") > 0

\* C37: for one failed password login at most one challenge handler runs:
\* performLoginWithChallenges handles an error that matches two-factor and
\* checkpoint markers as two-factor only, and the retrying login() never
\* runs its checkpoint handler and its two-factor handler for the same
\* failed attempt.
C37_OneHandlerPerFailure ==
  /\ (entry \in {"loginSingleAccount", "createIgFromSession"} /\ LastInvocation > 0) =>
        /\ ~(CheckpointHandlerRan(Invocation) /\ TwoFactorHandlerRan(Invocation))
        /\ pc \in {"S_cp", "S_cp_submit", "S_cp_probe"} => ~normalizeApiError(err).isTwoFactor
        /\ pc \in {"S_2fa", "S_2fa_submit"} => normalizeApiError(err).isTwoFactor
  /\ entry \in {"loginA", "loginB"} =>
        ~(CheckpointHandlerRan(SinceLastLogin) /\ TwoFactorHandlerRan(SinceLastLogin))

=============================================================================
